---- MODULE Spec2Model ----
(***************************************************************************)
(* Debate referee: the scoring and decision engine of DebateAnalyzer       *)
(* (src/debateref/src/debateAnalyzer.ts).                                  *)
(*                                                                         *)
(* Representation.                                                         *)
(*   - A JavaScript string is a sequence of one-character strings, so that *)
(*     split(/\s+/), includes() and toLowerCase() are computed character   *)
(*     by character.                                                       *)
(*   - A raw sub-score is a natural number of halves (ScoreUnit = 2): 15   *)
(*     stands for 7.5.  Every such value is an exact IEEE-754 double.      *)
(*   - A double inside calculateFinalScores is a little-endian sequence of *)
(*     16-bit limbs counting units of 2^-59, rounded to 53 significant     *)
(*     bits after every operation (round to nearest, ties to even).        *)
(*   - A displayed sub-score is a number of tenths, a finalScore a number  *)
(*     of hundredths, both wrapped in [nan, x] because unvalidated judge   *)
(*     entries can yield NaN.                                              *)
(*   - A JavaScript object is the sequence of its [userId, ...] entries in *)
(*     insertion order (user ids are not integer-like strings).            *)
(***************************************************************************)
EXTENDS Integers, Sequences, FiniteSets, TLC

(***************************************************************************)
(* Bounds of the model                                                     *)
(***************************************************************************)
MaxArgs == 2

(***************************************************************************)
(* Generic helpers                                                         *)
(***************************************************************************)
Min2(a, b) == IF a <= b THEN a ELSE b

Max2(a, b) == IF a >= b THEN a ELSE b

SeqsUpTo(S, n) == UNION { [1..k -> S] : k \in 0..n }

(***************************************************************************)
(* Strings                                                                 *)
(***************************************************************************)
WhiteSpace == { " ", "\t", "\n" }

UpperToLower ==
  [ A |-> "a", B |-> "b", C |-> "c", D |-> "d", E |-> "e", F |-> "f",
    G |-> "g", H |-> "h", I |-> "i", J |-> "j", K |-> "k", L |-> "l",
    M |-> "m", N |-> "n", O |-> "o", P |-> "p", Q |-> "q", R |-> "r",
    S |-> "s", T |-> "t", U |-> "u", V |-> "v", W |-> "w", X |-> "x",
    Y |-> "y", Z |-> "z" ]

\* String.prototype.toLowerCase
ToLowerCase(text) ==
  [ i \in 1..Len(text) |->
      IF text[i] \in DOMAIN UpperToLower THEN UpperToLower[text[i]] ELSE text[i] ]

\* String.prototype.includes
Includes(hay, needle) ==
  \E i \in 1..(Len(hay) - Len(needle) + 1) :
     \A j \in 1..Len(needle) : hay[i + j - 1] = needle[j]

\* A piece of split(/\s+/) starts at the first character and after every
\* maximal run of white space, also after a run that ends the text.
pieceStartsAt(text, i) ==
  \/ i = 1
  \/ /\ text[i - 1] \in WhiteSpace
     /\ i > Len(text) \/ text[i] \notin WhiteSpace

\* the piece that starts at i: the characters up to the next white space
pieceAt(text, i) ==
  IF i > Len(text) \/ text[i] \in WhiteSpace THEN << >>
  ELSE SubSeq(text, i,
              CHOOSE e \in i..Len(text) :
                /\ e = Len(text) \/ text[e + 1] \in WhiteSpace
                /\ \A j \in (i + 1)..e : text[j] \notin WhiteSpace)

RECURSIVE piecesBetween(_, _, _)
\* the pieces that start at the positions lo..hi, in order
piecesBetween(text, lo, hi) ==
  IF lo = hi
  THEN IF pieceStartsAt(text, lo) THEN << pieceAt(text, lo) >> ELSE << >>
  ELSE LET mid == (lo + hi) \div 2
       IN  piecesBetween(text, lo, mid) \o piecesBetween(text, mid + 1, hi)

\* String.prototype.split(/\s+/): the pieces between the maximal runs of
\* white space; a leading or trailing run leaves an empty piece, and the
\* empty string splits into one empty piece.
SplitWs(text) == piecesBetween(text, 1, Len(text) + 1)

(***************************************************************************)
(* Heuristic scorer                                                        *)
(***************************************************************************)
ScoreUnit == 2

Pts(n) == n * ScoreUnit

evidenceIndicators ==
  << <<"a","c","c","o","r","d","i","n","g"," ","t","o">>,
     <<"r","e","s","e","a","r","c","h"," ","s","h","o","w","s">>,
     <<"s","t","u","d","i","e","s"," ","i","n","d","i","c","a","t","e">>,
     <<"d","a","t","a"," ","s","u","g","g","e","s","t","s">>,
     <<"s","t","a","t","i","s","t","i","c","s"," ","s","h","o","w">>,
     <<"e","v","i","d","e","n","c","e"," ","s","h","o","w","s">>,
     <<"p","r","o","v","e","n">>,
     <<"d","e","m","o","n","s","t","r","a","t","e","d">>,
     <<"e","x","a","m","p","l","e">>,
     <<"f","o","r"," ","i","n","s","t","a","n","c","e">>,
     <<"c","a","s","e"," ","s","t","u","d","y">>,
     <<"s","u","r","v","e","y">>,
     <<"p","o","l","l">> >>

structureIndicators ==
  << <<"f","i","r","s","t">>,
     <<"s","e","c","o","n","d">>,
     <<"t","h","i","r","d">>,
     <<"f","u","r","t","h","e","r","m","o","r","e">>,
     <<"m","o","r","e","o","v","e","r">>,
     <<"a","d","d","i","t","i","o","n","a","l","l","y">>,
     <<"h","o","w","e","v","e","r">>,
     <<"t","h","e","r","e","f","o","r","e">>,
     <<"c","o","n","s","e","q","u","e","n","t","l","y">>,
     <<"i","n"," ","c","o","n","c","l","u","s","i","o","n">>,
     <<"t","o"," ","s","u","m","m","a","r","i","z","e">> >>

detectEvidence(text) ==
  LET lowerText == ToLowerCase(text)
  IN  \E k \in DOMAIN evidenceIndicators : Includes(lowerText, evidenceIndicators[k])

detectStructure(text) ==
  LET lowerText == ToLowerCase(text)
  IN  \E k \in DOMAIN structureIndicators : Includes(lowerText, structureIndicators[k])

\* arg.text.split(/\s+/).length
wordCount(text) == Len(SplitWs(text))

LogicWordThreshold == 50

\* The number of topic words that contain, or are contained in, a word of
\* the text.
relevanceMatches(text, topic) ==
  LET topicWords == SplitWs(ToLowerCase(topic))
      textWords  == SplitWs(ToLowerCase(text))
  IN  Cardinality({ i \in DOMAIN topicWords :
                      \E j \in DOMAIN textWords :
                         \/ Includes(textWords[j], topicWords[i])
                         \/ Includes(topicWords[i], textWords[j]) })

\* relevanceRatio * 10 + 5 clamped to [5,10], in halves.  The topics of the
\* model have 1, 2 or 4 words, so that the quotient is a whole number of
\* twentieths and every double operation of the source is exact.
calculateRelevance(text, topic) ==
  LET nTopicWords == Len(SplitWs(ToLowerCase(topic)))
      scaled      == (relevanceMatches(text, topic) * Pts(10)) \div nTopicWords
  IN  Min2(Pts(10), Max2(Pts(5), scaled + Pts(5)))

(***************************************************************************)
(* IEEE-754 double arithmetic of calculateFinalScores and determineWinner  *)
(*                                                                         *)
(* The magnitude of a double is the number of units of 2^-FracBits in it,  *)
(* written as a little-endian sequence of limbs in base 2^LimbBits with no *)
(* leading zero limb.  Every double that occurs (a sub-score times a       *)
(* weight, the sums, the sum times 100, k/100 for a whole k # 0, the       *)
(* difference of two of those, 0.1) is a whole number of that unit.        *)
(***************************************************************************)
FracBits == 59

MantissaBits == 53

LimbBits == 16

LimbBase == 2 ^ LimbBits

\* the largest shift done in one step, so that no intermediate value leaves
\* the 32-bit integers of TLC
StepBits == 14

RECURSIVE Norm(_)
Norm(a) ==
  IF a = << >> THEN a
  ELSE IF a[Len(a)] = 0 THEN Norm(SubSeq(a, 1, Len(a) - 1)) ELSE a

LimbAt(a, i) == IF i <= Len(a) THEN a[i] ELSE 0

RECURSIVE AddFrom(_, _, _, _)
AddFrom(a, b, i, carry) ==
  IF i > Len(a) /\ i > Len(b)
  THEN IF carry = 0 THEN << >> ELSE << carry >>
  ELSE LET t == LimbAt(a, i) + LimbAt(b, i) + carry
       IN  << t % LimbBase >> \o AddFrom(a, b, i + 1, t \div LimbBase)

\* exact sum
LimbsAdd(a, b) == Norm(AddFrom(a, b, 1, 0))

RECURSIVE SubFrom(_, _, _, _)
SubFrom(a, b, i, borrow) ==
  IF i > Len(a) THEN << >>
  ELSE LET t == a[i] - LimbAt(b, i) - borrow
       IN  IF t < 0 THEN << t + LimbBase >> \o SubFrom(a, b, i + 1, 1)
                    ELSE << t >> \o SubFrom(a, b, i + 1, 0)

\* exact difference a - b, for a >= b
LimbsSub(a, b) == Norm(SubFrom(a, b, 1, 0))

RECURSIVE LessFrom(_, _, _)
LessFrom(a, b, i) ==
  IF i = 0 THEN FALSE
  ELSE IF a[i] # b[i] THEN a[i] < b[i] ELSE LessFrom(a, b, i - 1)

\* a < b
LimbsLess(a, b) ==
  IF Len(a) # Len(b) THEN Len(a) < Len(b) ELSE LessFrom(a, b, Len(a))

RECURSIVE MulFrom(_, _, _, _)
MulFrom(a, n, i, carry) ==
  IF i > Len(a)
  THEN IF carry = 0 THEN << >> ELSE << carry >>
  ELSE LET t == a[i] * n + carry
       IN  << t % LimbBase >> \o MulFrom(a, n, i + 1, t \div LimbBase)

\* exact product with a natural number n <= 2^StepBits
LimbsMulNat(a, n) == Norm(MulFrom(a, n, 1, 0))

RECURSIVE DivFrom(_, _, _, _)
\* long division by a natural number d <= 2^StepBits, most significant limb
\* first
DivFrom(a, d, i, rem) ==
  IF i = 0 THEN [ q |-> << >>, r |-> rem ]
  ELSE LET t    == rem * LimbBase + a[i]
           rest == DivFrom(a, d, i - 1, t % d)
       IN  [ q |-> Append(rest.q, t \div d), r |-> rest.r ]

\* quotient and remainder of the division by d
LimbsDivMod(a, d) ==
  LET res == DivFrom(a, d, Len(a), 0)
  IN  [ q |-> Norm(res.q), r |-> res.r ]

RECURSIVE LimbsToNat(_)
LimbsToNat(a) == IF a = << >> THEN 0 ELSE a[1] + LimbBase * LimbsToNat(Tail(a))

RECURSIVE NatToLimbs(_)
NatToLimbs(n) ==
  IF n = 0 THEN << >> ELSE << n % LimbBase >> \o NatToLimbs(n \div LimbBase)

\* number of significant bits
BitLength(a) ==
  IF a = << >> THEN 0
  ELSE LET top == a[Len(a)]
       IN  LimbBits * (Len(a) - 1)
             + (CHOOSE k \in 1..LimbBits : 2 ^ (k - 1) <= top /\ top < 2 ^ k)

RECURSIVE ShiftRightSticky(_, _, _)
\* floor(a / 2^k), and whether a non-zero bit was shifted out (or sticky)
ShiftRightSticky(a, k, sticky) ==
  IF k = 0 THEN [ q |-> a, sticky |-> sticky ]
  ELSE LET step == Min2(k, StepBits)
           dm   == LimbsDivMod(a, 2 ^ step)
       IN  ShiftRightSticky(dm.q, k - step, sticky \/ dm.r # 0)

RECURSIVE ShiftLeftBits(_, _)
\* a * 2^k
ShiftLeftBits(a, k) ==
  IF k = 0 THEN a
  ELSE LET step == Min2(k, StepBits)
       IN  ShiftLeftBits(LimbsMulNat(a, 2 ^ step), k - step)

\* Round the exact value a (plus a non-zero fraction of a unit when sticky)
\* to the nearest double: keep MantissaBits significant bits, round to
\* nearest, ties to even.
RoundSticky(a, sticky) ==
  LET s == BitLength(a) - MantissaBits
  IN  IF s <= 0 THEN a
      ELSE LET sh      == ShiftRightSticky(a, s - 1, sticky)
               dm      == LimbsDivMod(sh.q, 2)
               odd     == LimbAt(dm.q, 1) % 2 = 1
               roundUp == dm.r = 1 /\ (sh.sticky \/ odd)
               kept    == IF roundUp THEN LimbsAdd(dm.q, << 1 >>) ELSE dm.q
           IN  ShiftLeftBits(kept, s)

RoundToDouble(a) == RoundSticky(a, FALSE)

\* A double is a sign and a magnitude.
Dbl(neg, mag) == [ neg |-> neg /\ mag # << >>, mag |-> mag ]

\* the double m * 2^-negExp, for a mantissa m of at most MantissaBits bits
DoubleOfMantissa(m, negExp) == Dbl(FALSE, ShiftLeftBits(m, FracBits - negExp))

Abs(n) == IF n < 0 THEN -n ELSE n

\* the double of an integer
DoubleOfInt(n) == Dbl(n < 0, ShiftLeftBits(NatToLimbs(Abs(n)), FracBits))

\* a + b on doubles
DoubleAdd(a, b) ==
  IF a.neg = b.neg THEN Dbl(a.neg, RoundToDouble(LimbsAdd(a.mag, b.mag)))
  ELSE IF LimbsLess(a.mag, b.mag)
       THEN Dbl(b.neg, RoundToDouble(LimbsSub(b.mag, a.mag)))
       ELSE Dbl(a.neg, RoundToDouble(LimbsSub(a.mag, b.mag)))

\* a - b on doubles
DoubleSub(a, b) == DoubleAdd(a, [ b EXCEPT !.neg = ~b.neg ])

\* a * n on doubles, for a natural number n
DoubleMulNat(a, n) == Dbl(a.neg, RoundToDouble(LimbsMulNat(a.mag, n)))

\* k / d on doubles, for an integer k and a natural number d: the quotient
\* is computed with LimbBits more bits than the unit, the remainder is the
\* sticky bit.
DoubleDivNat(k, d) ==
  LET dm      == LimbsDivMod(<< 0 >> \o DoubleOfInt(k).mag, d)
      rounded == RoundSticky(dm.q, dm.r # 0)
  IN  IF k = 0 THEN Dbl(FALSE, << >>) ELSE Dbl(k < 0, Tail(rounded))

\* a < b on doubles
DoubleLess(a, b) ==
  IF a.neg # b.neg THEN a.neg
  ELSE IF a.neg THEN LimbsLess(b.mag, a.mag) ELSE LimbsLess(a.mag, b.mag)

\* Math.round(d) = floor(d + 0.5)
MathRound(d) ==
  LET half == ShiftLeftBits(<< 1 >>, FracBits - 1)
  IN  IF ~d.neg
      THEN LimbsToNat(ShiftRightSticky(LimbsAdd(d.mag, half), FracBits, FALSE).q)
      ELSE IF LimbsLess(d.mag, half) THEN 0
      ELSE LET sh == ShiftRightSticky(LimbsSub(d.mag, half), FracBits, FALSE)
           IN  -(LimbsToNat(sh.q) + (IF sh.sticky THEN 1 ELSE 0))

\* The doubles nearest to 0.25, 0.30, 0.25 and 0.20; the mantissas count
\* units of 2^-54, least significant limb first:
\*   0.25 = 0x0010 0000 0000 0000 * 2^-54
\*   0.30 = 0x0013 3333 3333 3333 * 2^-54     (0x3333 = 13107)
\*   0.20 = 0x000C CCCC CCCC CCCD * 2^-54     (0xCCCC = 52428)
scoringWeights ==
  [ clarity   |-> DoubleOfMantissa(<< 0, 0, 0, 16 >>, 54),
    logic     |-> DoubleOfMantissa(<< 13107, 13107, 13107, 19 >>, 54),
    evidence  |-> DoubleOfMantissa(<< 0, 0, 0, 16 >>, 54),
    relevance |-> DoubleOfMantissa(<< 52429, 52428, 52428, 12 >>, 54) ]

\* score * weight on doubles, for a score of h halves: the exact product
\* (|h| * weight) / 2 is a whole number of units.
DoubleMulWeight(h, weight) ==
  Dbl(h < 0, RoundToDouble(LimbsDivMod(LimbsMulNat(weight.mag, Abs(h)), ScoreUnit).q))

\* the double value of the weighted sum, lines 283-287
weightedSum(c, l, e, r) ==
  DoubleAdd(DoubleAdd(DoubleAdd(DoubleMulWeight(c, scoringWeights.clarity),
                                DoubleMulWeight(l, scoringWeights.logic)),
                      DoubleMulWeight(e, scoringWeights.evidence)),
            DoubleMulWeight(r, scoringWeights.relevance))

\* Math.round(finalScore * 100) / 100, as a number of hundredths
roundFinalScore(d) == MathRound(DoubleMulNat(d, 100))

\* Math.round(score * 10) / 10 for a score of h halves, as a number of
\* tenths: score * 10 = 5h is a whole number, which Math.round keeps.
roundSubScore(h) == (h * 10 + 1) \div ScoreUnit

\* The double nearest to 0.1 = 0x0019 9999 9999 999A * 2^-56 (0x9999 = 39321)
TieThreshold == DoubleOfMantissa(<< 39322, 39321, 39321, 25 >>, 56)

\* Math.abs(a - b) < 0.1 for two finalScores of ka and kb hundredths, each
\* the double nearest to k/100
withinTieThreshold(ka, kb) ==
  LET diff == DoubleSub(DoubleDivNat(ka, 100), DoubleDivNat(kb, 100))
  IN  DoubleLess(Dbl(FALSE, diff.mag), TieThreshold)

(***************************************************************************)
(* Values                                                                  *)
(***************************************************************************)
\* a JSON value read as a sub-score: a number (of halves) or a string
JNum(v) == [ t |-> "number", v |-> v ]

JStr == [ t |-> "string", v |-> 0 ]

\* a JavaScript number that may be NaN
Num(x) == [ nan |-> FALSE, x |-> x ]

NaN == [ nan |-> TRUE, x |-> 0 ]

\* one own property of a scores object: the value is an object with the
\* five fields, or null
ScoreEntry(userId, clarity, logic, evidence, relevance, reasoning) ==
  [ userId |-> userId, isNull |-> FALSE, clarity |-> clarity, logic |-> logic,
    evidence |-> evidence, relevance |-> relevance, reasoning |-> reasoning ]

NullEntry(userId) ==
  [ userId |-> userId, isNull |-> TRUE, clarity |-> JStr, logic |-> JStr,
    evidence |-> JStr, relevance |-> JStr, reasoning |-> << >> ]

Keys(obj) == { obj[i].userId : i \in DOMAIN obj }

HasKey(obj, userId) == userId \in Keys(obj)

\* obj[userId], for a key the object has
Get(obj, userId) == obj[CHOOSE i \in DOMAIN obj : obj[i].userId = userId]

\* SetKey with the bug of adding a second property for an existing key
SetKeyAppends(obj, entry) == Append(obj, entry)

\* obj[userId] = entry: an existing key keeps its place, a new key goes last
SetKey(obj, entry) ==
  IF HasKey(obj, entry.userId)
  THEN [ i \in DOMAIN obj |-> IF obj[i].userId = entry.userId THEN entry ELSE obj[i] ]
  ELSE Append(obj, entry)

(***************************************************************************)
(* performFallbackAnalysis                                                 *)
(***************************************************************************)
fallbackEntry(arg, topic) ==
  LET wc           == wordCount(arg.text)
      hasEvidence  == detectEvidence(arg.text)
      hasStructure == detectStructure(arg.text)
      clarity   == Min2(Pts(10), Max2(Pts(5), IF hasStructure THEN Pts(8) ELSE Pts(6)))
      logic     == Min2(Pts(10), Max2(Pts(4), IF wc > LogicWordThreshold THEN Pts(7) ELSE Pts(5)))
      evidence  == Min2(Pts(10), Max2(Pts(3), IF hasEvidence THEN Pts(8) ELSE Pts(4)))
      relevance == Min2(Pts(10), Max2(Pts(6), calculateRelevance(arg.text, topic)))
  IN  ScoreEntry(arg.userId, JNum(clarity), JNum(logic), JNum(evidence), JNum(relevance),
                 << "Fallback scoring: ",
                    IF hasStructure THEN "Well-structured" ELSE "Basic structure", ", ",
                    IF hasEvidence THEN "Contains evidence" ELSE "Limited evidence", ", ",
                    ToString(wc), " words" >>)

RECURSIVE fallbackScores(_, _, _)
\* the loop of lines 206-224 from argument i on
fallbackScores(session, i, scores) ==
  IF i > Len(session.arguments) THEN scores
  ELSE fallbackScores(session, i + 1,
                      SetKey(scores, fallbackEntry(session.arguments[i], session.topic)))

performFallbackAnalysis(session) ==
  [ scores |-> fallbackScores(session, 1, << >>),
    consensusStatement |->
      << "Fallback analysis: ", ToString(Len(session.arguments)),
         " arguments analyzed using basic heuristics. Results may vary from AI analysis." >> ]

(***************************************************************************)
(* The judge's answer and parseAIResponse                                  *)
(*                                                                         *)
(* The answer of generateText is an exception or a text.  A text is a      *)
(* sequence of tokens: prose without braces, an opening brace, a closing   *)
(* brace, or the well-formed content of a JSON object (its payload).       *)
(***************************************************************************)
NoPayload == [ hasScores |-> FALSE, scores |-> << >>, consensusStatement |-> << >> ]

Prose == [ tok |-> "prose", payload |-> NoPayload ]

LBrace == [ tok |-> "{", payload |-> NoPayload ]

RBrace == [ tok |-> "}", payload |-> NoPayload ]

Body(payload) == [ tok |-> "body", payload |-> payload ]

Threw == [ threw |-> TRUE, text |-> << >> ]

Text(tokens) == [ threw |-> FALSE, text |-> tokens ]

\* response.match(/\{[\s\S]*\}/): from the first opening brace to the last
\* closing brace
hasJsonMatch(text) ==
  \E i, j \in DOMAIN text : i < j /\ text[i].tok = "{" /\ text[j].tok = "}"

jsonMatch(text) ==
  LET first == CHOOSE i \in DOMAIN text :
                 /\ text[i].tok = "{"
                 /\ \A k \in 1..(i - 1) : text[k].tok # "{"
      last  == CHOOSE j \in DOMAIN text :
                 /\ text[j].tok = "}"
                 /\ \A k \in (j + 1)..Len(text) : text[k].tok # "}"
  IN  SubSeq(text, first, last)

\* JSON.parse succeeds on an object with well-formed content and on {}
jsonParses(span) ==
  \/ Len(span) = 3 /\ span[2].tok = "body"
  \/ Len(span) = 2

jsonParse(span) == IF Len(span) = 3 THEN span[2].payload ELSE NoPayload

\* invalidScore with the bug of an exclusive upper bound
invalidScoreExclusive(v) == v.t # "number" \/ v.v < Pts(0) \/ v.v >= Pts(10)

invalidScore(v) == v.t # "number" \/ v.v < Pts(0) \/ v.v > Pts(10)

\* scoreViolation with the bug of checking relevance before the other fields
scoreViolationRelevanceFirst(parsed, userId) ==
  IF ~HasKey(parsed.scores, userId) \/ Get(parsed.scores, userId).isNull
  THEN << "Missing score for user ", userId >>
  ELSE LET score == Get(parsed.scores, userId)
       IN  IF invalidScore(score.relevance) THEN << "Invalid relevance score for user ", userId >>
           ELSE IF invalidScore(score.clarity) THEN << "Invalid clarity score for user ", userId >>
           ELSE IF invalidScore(score.logic) THEN << "Invalid logic score for user ", userId >>
           ELSE IF invalidScore(score.evidence) THEN << "Invalid evidence score for user ", userId >>
           ELSE << >>

\* the first violation of lines 171-187 for one argument, or << >>
scoreViolation(parsed, userId) ==
  IF ~HasKey(parsed.scores, userId) \/ Get(parsed.scores, userId).isNull
  THEN << "Missing score for user ", userId >>
  ELSE LET score == Get(parsed.scores, userId)
       IN  IF invalidScore(score.clarity) THEN << "Invalid clarity score for user ", userId >>
           ELSE IF invalidScore(score.logic) THEN << "Invalid logic score for user ", userId >>
           ELSE IF invalidScore(score.evidence) THEN << "Invalid evidence score for user ", userId >>
           ELSE IF invalidScore(score.relevance) THEN << "Invalid relevance score for user ", userId >>
           ELSE << >>

RECURSIVE firstViolation(_, _, _)
\* the loop of lines 170-188 from argument i on
firstViolation(parsed, session, i) ==
  IF i > Len(session.arguments) THEN << >>
  ELSE LET v == scoreViolation(parsed, session.arguments[i].userId)
       IN  IF v # << >> THEN v ELSE firstViolation(parsed, session, i + 1)

Rejected(message) ==
  [ ok |-> FALSE, error |-> << "Invalid AI response format: " >> \o message,
    value |-> NoPayload ]

parseAIResponse(text, session) ==
  IF ~hasJsonMatch(text) THEN Rejected(<< "No JSON found in AI response" >>)
  ELSE IF ~jsonParses(jsonMatch(text)) THEN Rejected(<< "SyntaxError" >>)
  ELSE LET parsed == jsonParse(jsonMatch(text))
       IN  IF Len(session.arguments) > 0 /\ ~parsed.hasScores
           THEN Rejected(<< "TypeError: parsed.scores is undefined" >>)
           ELSE IF firstViolation(parsed, session, 1) # << >>
           THEN Rejected(firstViolation(parsed, session, 1))
           ELSE [ ok |-> TRUE, error |-> << >>, value |-> parsed ]

\* generateText followed by parseAIResponse; an exception of either is
\* rethrown
performAIAnalysis(response, session) ==
  IF response.threw
  THEN [ ok |-> FALSE, error |-> << "generateText failed" >>, value |-> NoPayload ]
  ELSE parseAIResponse(response.text, session)

(***************************************************************************)
(* calculateFinalScores                                                    *)
(***************************************************************************)
\* reading score.clarity of a null entry throws a TypeError
finalScoresThrow(scores) == \E i \in DOMAIN scores : scores[i].isNull

allNumbers(score) ==
  /\ score.clarity.t = "number" /\ score.logic.t = "number"
  /\ score.evidence.t = "number" /\ score.relevance.t = "number"

\* a string that is no numeral multiplies to NaN
displayScore(v) == IF v.t = "number" THEN Num(roundSubScore(v.v)) ELSE NaN

finalResult(score) ==
  [ userId     |-> score.userId,
    userName   |-> "",
    scores     |-> [ clarity   |-> displayScore(score.clarity),
                     logic     |-> displayScore(score.logic),
                     evidence  |-> displayScore(score.evidence),
                     relevance |-> displayScore(score.relevance) ],
    finalScore |-> IF allNumbers(score)
                   THEN Num(roundFinalScore(weightedSum(score.clarity.v, score.logic.v,
                                                        score.evidence.v, score.relevance.v)))
                   ELSE NaN,
    reasoning  |-> score.reasoning ]

RECURSIVE finalScoresFrom(_, _, _)
finalScoresFrom(scores, i, results) ==
  IF i > Len(scores) THEN results
  ELSE finalScoresFrom(scores, i + 1, SetKey(results, finalResult(scores[i])))

calculateFinalScores(scores) == finalScoresFrom(scores, 1, << >>)

(***************************************************************************)
(* determineWinner                                                         *)
(***************************************************************************)
Perms(n) == { p \in [1..n -> 1..n] : \A i, j \in 1..n : i # j => p[i] # p[j] }

\* the comparator b.finalScore - a.finalScore is negative: a sorts before b
sortsBefore(a, b) ==
  ~a.finalScore.nan /\ ~b.finalScore.nan /\ a.finalScore.x > b.finalScore.x

\* With a NaN difference the comparator calls the pair equal; it is a
\* consistent comparator unless two other entries differ.
consistentComparator(entries) ==
  \/ \A i \in DOMAIN entries : ~entries[i].finalScore.nan
  \/ \A i, j \in DOMAIN entries : ~sortsBefore(entries[i], entries[j])

\* The arrays entries.sort(...) can leave: the stable descending order, or
\* an implementation-defined order when the comparator is inconsistent.
sortOutcomes(entries) ==
  LET n == Len(entries)
  IN  { [ k \in 1..n |-> entries[p[k]] ] :
          p \in { q \in Perms(n) :
                    \/ ~consistentComparator(entries)
                    \/ \A i, j \in 1..n :
                         i < j => /\ ~sortsBefore(entries[q[j]], entries[q[i]])
                                  /\ (sortsBefore(entries[q[i]], entries[q[j]]) \/ q[i] < q[j]) } }

NoWinner == [ isNull |-> TRUE, userId |-> "", userName |-> "", finalScore |-> NaN ]

Winner(result) ==
  [ isNull |-> FALSE, userId |-> result.userId, userName |-> result.userName,
    finalScore |-> result.finalScore ]

\* Math.abs(a.finalScore - b.finalScore) < 0.1
scoresTie(a, b) ==
  /\ ~a.finalScore.nan /\ ~b.finalScore.nan
  /\ withinTieThreshold(a.finalScore.x, b.finalScore.x)

\* determineWinner with the bug of naming the top entry even on a tie
determineWinnerKeepsTop(results, sorted) ==
  IF Len(results) = 0 THEN [ winner |-> NoWinner, isTie |-> FALSE ]
  ELSE IF Len(results) = 1 THEN [ winner |-> Winner(results[1]), isTie |-> FALSE ]
  ELSE [ winner |-> Winner(sorted[1]), isTie |-> scoresTie(sorted[1], sorted[2]) ]

\* lines 309-339, given the array the sort left
determineWinner(results, sorted) ==
  IF Len(results) = 0 THEN [ winner |-> NoWinner, isTie |-> FALSE ]
  ELSE IF Len(results) = 1 THEN [ winner |-> Winner(results[1]), isTie |-> FALSE ]
  ELSE LET isTie == scoresTie(sorted[1], sorted[2])
       IN  [ winner |-> IF isTie THEN NoWinner ELSE Winner(sorted[1]), isTie |-> isTie ]

(***************************************************************************)
(* Inputs of the model                                                     *)
(***************************************************************************)
\* n one-letter words separated by single spaces
Words(n) == [ i \in 1..(2 * n - 1) |-> IF i % 2 = 1 THEN "w" ELSE " " ]

TextEmpty == << >>

TextShort == Words(2)

TextFifty == Words(LogicWordThreshold)

TextFiftyTrailing == Words(LogicWordThreshold) \o << " " >>

TextFiftyOne == Words(LogicWordThreshold + 1)

\* more than 50 words, with "Studies show" and "However"
TextScenarioA ==
  Words(LogicWordThreshold - 1)
    \o << " ","S","t","u","d","i","e","s"," ","s","h","o","w"," ","w"," " >>
    \o << "H","o","w","e","v","e","r"," ","w" >>

\* "Firstly unproven taxes": markers inside longer words, one topic word
TextMarked ==
  << "F","i","r","s","t","l","y"," ","u","n","p","r","o","v","e","n"," ",
     "t","a","x","e","s" >>

TopicAiTax == << "A","I"," ","t","a","x" >>

Topics == { TopicAiTax }

UserName(userId) == IF userId = "u1" THEN "Alice" ELSE "Bob"

Arg(userId, text) == [ userId |-> userId, userName |-> UserName(userId), text |-> text ]

ArgChoices ==
  { Arg("u1", TextShort), Arg("u1", TextScenarioA), Arg("u1", TextFiftyTrailing),
    Arg("u1", TextMarked),
    Arg("u2", TextShort), Arg("u2", TextFifty), Arg("u2", TextFiftyOne),
    Arg("u2", TextEmpty) }

\* an optional property of an object
Undefined == [ defined |-> FALSE, value |-> 0 ]

Defined(v) == [ defined |-> TRUE, value |-> v ]

\* the sessions handed to analyzeDebate; none has been processed
Sessions ==
  { [ topic |-> t, arguments |-> a, processedAt |-> Undefined ] :
      t \in Topics, a \in SeqsUpTo(ArgChoices, MaxArgs) }

Participants(session) == { session.arguments[i].userId : i \in DOMAIN session.arguments }

JudgeReasoning == << "judge reasoning" >>

JudgeConsensus == << "judge consensus" >>

JudgeEntry(userId, c, l, e, r) == ScoreEntry(userId, c, l, e, r, JudgeReasoning)

\* what the judge may say about u1: nothing, null, valid scores (8,7,6,9),
\* the boundary values (0,10,0,10), half points (5,7,6.5,8), one invalid
\* field, or three invalid fields
JudgeU1 ==
  { << >>,
    << NullEntry("u1") >>,
    << JudgeEntry("u1", JNum(16), JNum(14), JNum(12), JNum(18)) >>,
    << JudgeEntry("u1", JNum(0), JNum(20), JNum(0), JNum(20)) >>,
    << JudgeEntry("u1", JNum(10), JNum(14), JNum(13), JNum(16)) >>,
    << JudgeEntry("u1", JNum(-1), JNum(14), JNum(12), JNum(18)) >>,
    << JudgeEntry("u1", JNum(16), JNum(21), JNum(12), JNum(18)) >>,
    << JudgeEntry("u1", JNum(16), JNum(14), JStr, JNum(18)) >>,
    << JudgeEntry("u1", JNum(16), JNum(14), JNum(12), JNum(22)) >>,
    << JudgeEntry("u1", JNum(16), JNum(21), JStr, JNum(22)) >> }

\* about u2: nothing, (7,8,7,8), or the same scores as u1's (8,7,6,9)
JudgeU2 ==
  { << >>,
    << JudgeEntry("u2", JNum(14), JNum(16), JNum(14), JNum(16)) >>,
    << JudgeEntry("u2", JNum(16), JNum(14), JNum(12), JNum(18)) >> }

\* about "ghost", who is in no session: nothing, (10,10,10,10), scores of
\* 25, null, or an entry whose clarity is a string
JudgeGhost ==
  { << >>,
    << JudgeEntry("ghost", JNum(20), JNum(20), JNum(20), JNum(20)) >>,
    << JudgeEntry("ghost", JNum(50), JNum(50), JNum(50), JNum(50)) >>,
    << NullEntry("ghost") >>,
    << JudgeEntry("ghost", JStr, JNum(20), JNum(20), JNum(20)) >> }

Payloads ==
  { [ hasScores |-> TRUE, scores |-> a \o b \o g, consensusStatement |-> JudgeConsensus ] :
      a \in JudgeU1, b \in JudgeU2, g \in JudgeGhost }

PlainPayload ==
  [ hasScores |-> TRUE,
    scores |-> << JudgeEntry("u1", JNum(16), JNum(14), JNum(12), JNum(18)),
                  JudgeEntry("u2", JNum(14), JNum(16), JNum(14), JNum(16)) >>,
    consensusStatement |-> JudgeConsensus ]

JudgeResponses ==
  { Threw,
    Text(<< Prose >>),
    Text(<< Prose, LBrace, Prose >>),
    Text(<< RBrace, Prose, LBrace >>),
    Text(<< LBrace, Prose, RBrace >>),
    Text(<< LBrace, RBrace >>),
    Text(<< LBrace, Body([ PlainPayload EXCEPT !.hasScores = FALSE, !.scores = << >> ]), RBrace >>),
    Text(<< Prose, LBrace, Body(PlainPayload), RBrace, Prose >>),
    Text(<< LBrace, Prose, RBrace, Prose, LBrace, Body(PlainPayload), RBrace >>) }
  \cup { Text(<< LBrace, Body(p), RBrace >>) : p \in Payloads }

(***************************************************************************)
(* State                                                                   *)
(***************************************************************************)
VARIABLES
  session,        \* the DebateSession passed to analyzeDebate
  pc,             \* where the invocation stands
  response,       \* the outcome of generateText inside performAIAnalysis
  aiResponse,     \* the local aiResponse of analyzeDebate
  judgeError,     \* the error caught at line 64, << >> if none
  results,        \* the local results of analyzeDebate
  decision,       \* the DebateResult returned
  failure,        \* the error thrown to the caller, << >> if none
  judgeCalls,     \* number of calls of runtime.generateText
  fallbackRuns    \* number of calls of performFallbackAnalysis

\* the state of one invocation of analyzeDebate
analyzerVars == << session, pc, response, aiResponse, judgeError, results, decision,
                   failure, judgeCalls, fallbackRuns >>

\* Repeated runs of calculateFinalScores and determineWinner on one mapping
VARIABLES
  rawScores,      \* the scores object handed to calculateFinalScores
  runs            \* what each run so far produced, oldest first

rerunVars == << rawScores, runs >>

\* DebateStore and the files it keeps
VARIABLES
  dataDir,        \* whether the data directory exists
  sessionsFile,   \* sessions.json: whether it exists, and the array in it
  created,        \* the sessions the createSession calls returned, oldest first
  lastCall,       \* the last call of a store method and how it settled
  storeCalls,     \* number of calls of store methods so far
  resultsFile,    \* results.json: whether it exists, whether it can be written, its JSON value
  saved           \* the decisions of the saveResults calls that completed, oldest first

storeVars == << dataDir, sessionsFile, created, lastCall, storeCalls, resultsFile, saved >>

\* ResultPrinter.wrapText
VARIABLES
  wrapInput,      \* the text and the width of the call
  wrapOutput      \* whether the call has returned, and the lines returned

printerVars == << wrapInput, wrapOutput >>

\* The analyze flow of the command line (DebateRefereeCLI.analyzeDebate)
VARIABLES
  cliPc,          \* where the flow stands
  cliSession,     \* its local session
  cliResult,      \* its local result
  cliOutput       \* what it has asked the printer to print, oldest first

cliVars == << cliPc, cliSession, cliResult, cliOutput >>

\* addArgument calls that have been started and not awaited
VARIABLES
  inFlight        \* for each such call: its stage, its inputs and what it loaded

flightVars == << inFlight >>

vars == << analyzerVars, rerunVars, storeVars, printerVars, cliVars, flightVars >>

\* the components that take no step while another one runs
AnalyzerIdle ==
  /\ session = [ topic |-> << >>, arguments |-> << >> ]
  /\ pc = "idle"
  /\ response = [ threw |-> FALSE, text |-> << >> ]
  /\ aiResponse = [ from |-> "none", scores |-> << >>, consensusStatement |-> << >> ]
  /\ judgeError = << >>
  /\ results = << >>
  /\ decision = [ returned |-> FALSE, topic |-> << >>, results |-> << >>,
                  winner |-> [ isNull |-> TRUE, userId |-> "", userName |-> "",
                               finalScore |-> [ nan |-> TRUE, x |-> 0 ] ],
                  isTie |-> FALSE, consensusStatement |-> << >> ]
  /\ failure = << >>
  /\ judgeCalls = 0
  /\ fallbackRuns = 0

RerunIdle == rawScores = << >> /\ runs = << >>

StoreIdle ==
  /\ dataDir = FALSE
  /\ sessionsFile = [ exists |-> FALSE, content |-> << >> ]
  /\ created = << >>
  /\ lastCall = [ op |-> "none", ok |-> TRUE ]
  /\ storeCalls = 0
  /\ resultsFile = [ exists |-> FALSE, writable |-> TRUE, isArray |-> TRUE, content |-> << >> ]
  /\ saved = << >>

CliIdle ==
  /\ cliPc = "idle"
  /\ cliSession = [ isNull |-> TRUE ]
  /\ cliResult = [ returned |-> FALSE ]
  /\ cliOutput = << >>

FlightIdle == inFlight = << >>

PrinterIdle ==
  /\ wrapInput = [ text |-> << >>, width |-> 0 ]
  /\ wrapOutput = [ returned |-> FALSE, lines |-> << >> ]

NoResponse == [ threw |-> FALSE, text |-> << >> ]

NoScoring == [ from |-> "none", scores |-> << >>, consensusStatement |-> << >> ]

NoDecision ==
  [ returned |-> FALSE, topic |-> << >>, results |-> << >>, winner |-> NoWinner,
    isTie |-> FALSE, consensusStatement |-> << >> ]

Init ==
  /\ session \in Sessions
  /\ pc = "start"
  /\ response = NoResponse
  /\ aiResponse = NoScoring
  /\ judgeError = << >>
  /\ results = << >>
  /\ decision = NoDecision
  /\ failure = << >>
  /\ judgeCalls = 0
  /\ fallbackRuns = 0
  /\ RerunIdle /\ StoreIdle /\ PrinterIdle /\ CliIdle /\ FlightIdle

\* the error analyzeDebate throws at line 88
Failed(message) == << "Failed to analyze debate: " >> \o message

\* Start with the bug of a missing precondition check
StartWithoutPrecondition ==
  /\ pc = "start"
  /\ UNCHANGED << rerunVars, storeVars, printerVars, cliVars, flightVars >>
  /\ pc' = "judge_attempt"
  /\ judgeCalls' = judgeCalls + 1
  /\ UNCHANGED << session, response, aiResponse, judgeError, results, decision,
                  failure, fallbackRuns >>

\* lines 53-63: the precondition, then the call of the judge
Start ==
  /\ pc = "start"
  /\ UNCHANGED << rerunVars, storeVars, printerVars, cliVars, flightVars >>
  /\ IF Len(session.arguments) = 0
     THEN /\ pc' = "failed"
          /\ failure' = Failed(<< "No arguments to analyze" >>)
          /\ UNCHANGED judgeCalls
     ELSE /\ pc' = "judge_attempt"
          /\ judgeCalls' = judgeCalls + 1
          /\ UNCHANGED failure
  /\ UNCHANGED << session, response, aiResponse, judgeError, results, decision, fallbackRuns >>

\* line 99: generateText settles, with a text or an exception
JudgeResponds ==
  /\ pc = "judge_attempt"
  /\ UNCHANGED << rerunVars, storeVars, printerVars, cliVars, flightVars >>
  /\ \E r \in JudgeResponses : response' = r
  /\ pc' = "validate"
  /\ UNCHANGED << session, aiResponse, judgeError, results, decision, failure,
                  judgeCalls, fallbackRuns >>

\* Validate with the bug of going on with a payload that failed validation
ValidateKeepsRejectedPayload ==
  /\ pc = "validate"
  /\ UNCHANGED << rerunVars, storeVars, printerVars, cliVars, flightVars >>
  /\ LET res    == performAIAnalysis(response, session)
         parsed == IF ~response.threw /\ hasJsonMatch(response.text)
                      /\ jsonParses(jsonMatch(response.text))
                   THEN jsonParse(jsonMatch(response.text)) ELSE NoPayload
     IN  /\ judgeError' = res.error
         /\ IF res.ok \/ parsed.hasScores
            THEN /\ aiResponse' = [ from |-> "judge", scores |-> parsed.scores,
                                    consensusStatement |-> parsed.consensusStatement ]
                 /\ pc' = "aggregate"
            ELSE /\ pc' = "fallback"
                 /\ UNCHANGED aiResponse
  /\ response' = NoResponse
  /\ UNCHANGED << session, results, decision, failure, judgeCalls, fallbackRuns >>

\* Validate with the bug of asking the judge once more after a failure
ValidateRetriesJudge ==
  /\ pc = "validate"
  /\ UNCHANGED << rerunVars, storeVars, printerVars, cliVars, flightVars >>
  /\ LET res == performAIAnalysis(response, session)
     IN  IF res.ok
         THEN /\ aiResponse' = [ from |-> "judge", scores |-> res.value.scores,
                                 consensusStatement |-> res.value.consensusStatement ]
              /\ pc' = "aggregate"
              /\ UNCHANGED << judgeError, judgeCalls >>
         ELSE /\ judgeError' = res.error
              /\ IF judgeCalls < 2
                 THEN pc' = "judge_attempt" /\ judgeCalls' = judgeCalls + 1
                 ELSE pc' = "fallback" /\ UNCHANGED judgeCalls
              /\ UNCHANGED aiResponse
  /\ response' = NoResponse
  /\ UNCHANGED << session, results, decision, failure, fallbackRuns >>

\* lines 62-65 and 106: the answer is parsed and validated; a failure is
\* caught and logged
Validate ==
  /\ pc = "validate"
  /\ UNCHANGED << rerunVars, storeVars, printerVars, cliVars, flightVars >>
  /\ LET res == performAIAnalysis(response, session)
     IN  IF res.ok
         THEN /\ aiResponse' = [ from |-> "judge", scores |-> res.value.scores,
                                 consensusStatement |-> res.value.consensusStatement ]
              /\ pc' = "aggregate"
              /\ UNCHANGED judgeError
         ELSE /\ judgeError' = res.error
              /\ pc' = "fallback"
              /\ UNCHANGED aiResponse
  /\ response' = NoResponse
  /\ UNCHANGED << session, results, decision, failure, judgeCalls, fallbackRuns >>

\* line 66
Fallback ==
  /\ pc = "fallback"
  /\ UNCHANGED << rerunVars, storeVars, printerVars, cliVars, flightVars >>
  /\ LET fb == performFallbackAnalysis(session)
     IN  aiResponse' = [ from |-> "fallback", scores |-> fb.scores,
                         consensusStatement |-> fb.consensusStatement ]
  /\ fallbackRuns' = fallbackRuns + 1
  /\ pc' = "aggregate"
  /\ UNCHANGED << session, response, judgeError, results, decision, failure, judgeCalls >>

\* line 70; an exception goes to the catch of lines 86-89
Aggregate ==
  /\ pc = "aggregate"
  /\ UNCHANGED << rerunVars, storeVars, printerVars, cliVars, flightVars >>
  /\ IF finalScoresThrow(aiResponse.scores)
     THEN /\ pc' = "failed"
          /\ failure' = Failed(<< "TypeError: cannot read properties of null" >>)
          /\ UNCHANGED results
     ELSE /\ results' = calculateFinalScores(aiResponse.scores)
          /\ pc' = "resolve"
          /\ UNCHANGED failure
  /\ UNCHANGED << session, response, aiResponse, judgeError, decision, judgeCalls, fallbackRuns >>

\* lines 71-84
Resolve ==
  /\ pc = "resolve"
  /\ UNCHANGED << rerunVars, storeVars, printerVars, cliVars, flightVars >>
  /\ \E sorted \in sortOutcomes(results) :
        LET winner == determineWinner(results, sorted)
        IN  decision' = [ returned |-> TRUE, topic |-> session.topic, results |-> results,
                          winner |-> winner.winner, isTie |-> winner.isTie,
                          consensusStatement |-> aiResponse.consensusStatement ]
  /\ pc' = "done"
  /\ UNCHANGED << session, response, aiResponse, judgeError, results, failure,
                  judgeCalls, fallbackRuns >>

\* Invoke with the bug of an analyzer that keeps the last scoring in a field
InvokeKeepsScoring ==
  /\ pc \in { "done", "failed" }
  /\ UNCHANGED << rerunVars, storeVars, printerVars, cliVars, flightVars >>
  /\ pc' = "start"
  /\ response' = NoResponse
  /\ judgeError' = << >>
  /\ results' = << >>
  /\ decision' = NoDecision
  /\ failure' = << >>
  /\ judgeCalls' = 0
  /\ fallbackRuns' = 0
  /\ UNCHANGED << session, aiResponse >>

\* analyzeDebate is called again with the session: its locals are new, and
\* the analyzer has no field that a run writes (lines 36-46)
Invoke ==
  /\ pc \in { "done", "failed" }
  /\ UNCHANGED << rerunVars, storeVars, printerVars, cliVars, flightVars >>
  /\ pc' = "start"
  /\ response' = NoResponse
  /\ aiResponse' = NoScoring
  /\ judgeError' = << >>
  /\ results' = << >>
  /\ decision' = NoDecision
  /\ failure' = << >>
  /\ judgeCalls' = 0
  /\ fallbackRuns' = 0
  /\ UNCHANGED session

Next == Start \/ JudgeResponds \/ Validate \/ Fallback \/ Aggregate \/ Resolve \/ Invoke

Spec == Init /\ [][Next]_vars

(***************************************************************************)
(* calculateFinalScores followed by determineWinner, run repeatedly on one *)
(* scores object                                                           *)
(***************************************************************************)
MaxRuns == 2

\* the scores objects of the judge's payloads and of the heuristic scorer
RawScoreMappings ==
  { p.scores : p \in Payloads } \cup { performFallbackAnalysis(s).scores : s \in Sessions }

InitRerun ==
  /\ rawScores \in RawScoreMappings
  /\ runs = << >>
  /\ AnalyzerIdle /\ StoreIdle /\ PrinterIdle /\ CliIdle /\ FlightIdle

\* what a run that threw at line 283 leaves
ThrewRun(scores) ==
  [ input |-> scores, threw |-> TRUE, results |-> << >>, sorted |-> << >>,
    winner |-> NoWinner, isTie |-> FALSE ]

\* RunScoring with the bug of consuming the entries of its argument
RunScoringConsumesInput ==
  /\ Len(runs) < MaxRuns
  /\ IF finalScoresThrow(rawScores)
     THEN runs' = Append(runs, ThrewRun(rawScores))
     ELSE LET res == calculateFinalScores(rawScores)
          IN  \E sorted \in sortOutcomes(res) :
                 /\ \A k \in DOMAIN runs :
                       (~runs[k].threw /\ runs[k].results = res) => sorted = runs[k].sorted
                 /\ runs' = Append(runs, [ input |-> rawScores, threw |-> FALSE,
                                           results |-> res, sorted |-> sorted,
                                           winner |-> determineWinner(res, sorted).winner,
                                           isTie |-> determineWinner(res, sorted).isTie ])
  /\ rawScores' = IF rawScores = << >> THEN << >> ELSE Tail(rawScores)
  /\ UNCHANGED << analyzerVars, storeVars, printerVars, cliVars, flightVars >>

\* lines 70-71: one run of the two steps.  Neither writes to its argument
\* or to a field of the analyzer.  entries.sort is a function of the engine:
\* on an array it has sorted before it leaves the same order again.
RunScoring ==
  /\ Len(runs) < MaxRuns
  /\ IF finalScoresThrow(rawScores)
     THEN runs' = Append(runs, ThrewRun(rawScores))
     ELSE LET res == calculateFinalScores(rawScores)
          IN  \E sorted \in sortOutcomes(res) :
                 /\ \A k \in DOMAIN runs :
                       (~runs[k].threw /\ runs[k].results = res) => sorted = runs[k].sorted
                 /\ runs' = Append(runs, [ input |-> rawScores, threw |-> FALSE,
                                           results |-> res, sorted |-> sorted,
                                           winner |-> determineWinner(res, sorted).winner,
                                           isTie |-> determineWinner(res, sorted).isTie ])
  /\ UNCHANGED rawScores
  /\ UNCHANGED << analyzerVars, storeVars, printerVars, cliVars, flightVars >>

NextRerun == RunScoring

SpecRerun == InitRerun /\ [][NextRerun]_vars

(***************************************************************************)
(* DebateStore (src/unnamed/part_001, lines 59-251)                        *)
(*                                                                         *)
(* sessions.json holds what JSON.stringify wrote: an array of sessions,    *)
(* each with its id, topic, arguments, createdAt and, once set, its        *)
(* processedAt.  Every method is awaited before the next one is called.    *)
(* The file system works, except that a file cannot be written into a      *)
(* directory that does not exist.  Time is one instant: the methods only   *)
(* copy Date.now() into the records.                                       *)
(***************************************************************************)
MaxStoreCalls == 4

\* Date.now()
DateNow == 1

\* the strings generateId can return; they may repeat
Ids == { "debate_1_a", "debate_1_b" }

\* an id that generateId has not returned
UnknownId == "debate_0_x"

TopicUbi == << "U","B","I" >>

StoreTopics == { TopicAiTax, TopicUbi }

\* what the callers submit: user id, display name and text
Submissions == { Arg("u1", TextShort), Arg("u2", TextMarked) }

NoSession ==
  [ id |-> "", topic |-> << >>, arguments |-> << >>, createdAt |-> 0,
    processedAt |-> Undefined ]

NoArgument ==
  [ id |-> "", userId |-> "", userName |-> "", topic |-> << >>, text |-> << >>,
    timestamp |-> 0 ]

\* a settled call: its inputs, and the value returned or the error thrown
Call(op, sessionId, topic, submission, ok, error, returnedSession, returnedArgument) ==
  [ op |-> op, sessionId |-> sessionId, topic |-> topic, userId |-> submission.userId,
    userName |-> submission.userName, text |-> submission.text, ok |-> ok,
    error |-> error, session |-> returnedSession, argument |-> returnedArgument ]

NoSubmission == Arg("", << >>)

InitStore ==
  /\ \/ dataDir = FALSE /\ sessionsFile = [ exists |-> FALSE, content |-> << >> ]
     \/ dataDir = TRUE /\ sessionsFile = [ exists |-> FALSE, content |-> << >> ]
     \/ dataDir = TRUE /\ sessionsFile = [ exists |-> TRUE, content |-> << >> ]
  /\ created = << >>
  /\ lastCall = [ op |-> "none", ok |-> TRUE ]
  /\ storeCalls = 0
  /\ resultsFile = [ exists |-> sessionsFile.exists, writable |-> TRUE, isArray |-> TRUE,
                     content |-> << >> ]
  /\ saved = << >>
  /\ AnalyzerIdle /\ RerunIdle /\ PrinterIdle /\ CliIdle /\ FlightIdle

\* lines 196-206: a missing file reads as the empty array
loadSessions == IF sessionsFile.exists THEN sessionsFile.content ELSE << >>

\* lines 211-217: whether fs.writeFile succeeds
canSaveSessions == dataDir

SaveFailed == << "Failed to save sessions: ", "ENOENT" >>

\* sessions.findIndex(session => session.id === sessionId)
findIndex(sessions, sessionId) ==
  IF \E i \in DOMAIN sessions : sessions[i].id = sessionId
  THEN CHOOSE i \in DOMAIN sessions :
         /\ sessions[i].id = sessionId
         /\ \A k \in 1..(i - 1) : sessions[k].id # sessionId
  ELSE -1

\* lines 116-119; null is written [ isNull |-> TRUE ]
getSession(sessionId) ==
  LET sessions == loadSessions
      index    == findIndex(sessions, sessionId)
  IN  IF index = -1 THEN [ isNull |-> TRUE, session |-> NoSession ]
      ELSE [ isNull |-> FALSE, session |-> sessions[index] ]

\* lines 124-126
getAllSessions == loadSessions

SessionNotFound(sessionId) == << "Session ", sessionId, " not found" >>

\* lines 73-93: mkdir -p, then each file is created unless it is there
Initialize ==
  /\ storeCalls < MaxStoreCalls
  /\ dataDir' = TRUE
  /\ sessionsFile' = IF sessionsFile.exists THEN sessionsFile
                     ELSE [ exists |-> TRUE, content |-> << >> ]
  /\ lastCall' = Call("initialize", "", << >>, NoSubmission, TRUE, << >>, NoSession, NoArgument)
  /\ resultsFile' = IF resultsFile.exists THEN resultsFile
                    ELSE [ exists |-> TRUE, writable |-> TRUE, isArray |-> TRUE,
                           content |-> << >> ]
  /\ storeCalls' = storeCalls + 1
  /\ UNCHANGED << created, saved >>
  /\ UNCHANGED << analyzerVars, rerunVars, printerVars, cliVars, flightVars >>

\* CreateSession with the bug of saving the new session alone
CreateSessionSavesAlone(topic) ==
  /\ storeCalls < MaxStoreCalls
  /\ \E id \in Ids :
        LET newSession == [ id |-> id, topic |-> topic, arguments |-> << >>,
                            createdAt |-> DateNow, processedAt |-> Undefined ]
        IN  IF canSaveSessions
            THEN /\ sessionsFile' = [ exists |-> TRUE, content |-> << newSession >> ]
                 /\ created' = Append(created, newSession)
                 /\ lastCall' = Call("createSession", "", topic, NoSubmission, TRUE, << >>,
                                     newSession, NoArgument)
            ELSE /\ lastCall' = Call("createSession", "", topic, NoSubmission, FALSE,
                                     SaveFailed, NoSession, NoArgument)
                 /\ UNCHANGED << sessionsFile, created >>
  /\ storeCalls' = storeCalls + 1
  /\ UNCHANGED << dataDir, resultsFile, saved >>
  /\ UNCHANGED << analyzerVars, rerunVars, printerVars, cliVars, flightVars >>

\* lines 98-111
CreateSession(topic) ==
  /\ storeCalls < MaxStoreCalls
  /\ \E id \in Ids :
        LET newSession == [ id |-> id, topic |-> topic, arguments |-> << >>,
                            createdAt |-> DateNow, processedAt |-> Undefined ]
            sessions   == loadSessions
        IN  IF canSaveSessions
            THEN /\ sessionsFile' = [ exists |-> TRUE, content |-> Append(sessions, newSession) ]
                 /\ created' = Append(created, newSession)
                 /\ lastCall' = Call("createSession", "", topic, NoSubmission, TRUE, << >>,
                                     newSession, NoArgument)
            ELSE /\ lastCall' = Call("createSession", "", topic, NoSubmission, FALSE,
                                     SaveFailed, NoSession, NoArgument)
                 /\ UNCHANGED << sessionsFile, created >>
  /\ storeCalls' = storeCalls + 1
  /\ UNCHANGED << dataDir, resultsFile, saved >>
  /\ UNCHANGED << analyzerVars, rerunVars, printerVars, cliVars, flightVars >>

\* AddArgument with the bug of putting the new argument first
AddArgumentPrepends(sessionId, submission) ==
  /\ storeCalls < MaxStoreCalls
  /\ LET sessions     == loadSessions
         sessionIndex == findIndex(sessions, sessionId)
     IN  IF sessionIndex = -1
         THEN /\ lastCall' = Call("addArgument", sessionId, << >>, submission, FALSE,
                                  SessionNotFound(sessionId), NoSession, NoArgument)
              /\ UNCHANGED sessionsFile
         ELSE \E id \in Ids :
                 LET argument == [ id |-> id, userId |-> submission.userId,
                                   userName |-> submission.userName,
                                   topic |-> sessions[sessionIndex].topic,
                                   text |-> submission.text, timestamp |-> DateNow ]
                 IN  IF canSaveSessions
                     THEN /\ sessionsFile' =
                               [ exists |-> TRUE,
                                 content |-> [ sessions EXCEPT ![sessionIndex].arguments =
                                                 << argument >> \o @ ] ]
                          /\ lastCall' = Call("addArgument", sessionId, << >>, submission,
                                              TRUE, << >>, NoSession, argument)
                     ELSE /\ lastCall' = Call("addArgument", sessionId, << >>, submission,
                                              FALSE, SaveFailed, NoSession, NoArgument)
                          /\ UNCHANGED sessionsFile
  /\ storeCalls' = storeCalls + 1
  /\ UNCHANGED << dataDir, created, resultsFile, saved >>
  /\ UNCHANGED << analyzerVars, rerunVars, printerVars, cliVars, flightVars >>

\* lines 131-152; submission is the userId, userName and argumentText given
AddArgument(sessionId, submission) ==
  /\ storeCalls < MaxStoreCalls
  /\ LET sessions     == loadSessions
         sessionIndex == findIndex(sessions, sessionId)
     IN  IF sessionIndex = -1
         THEN /\ lastCall' = Call("addArgument", sessionId, << >>, submission, FALSE,
                                  SessionNotFound(sessionId), NoSession, NoArgument)
              /\ UNCHANGED sessionsFile
         ELSE \E id \in Ids :
                 LET argument == [ id |-> id, userId |-> submission.userId,
                                   userName |-> submission.userName,
                                   topic |-> sessions[sessionIndex].topic,
                                   text |-> submission.text, timestamp |-> DateNow ]
                 IN  IF canSaveSessions
                     THEN /\ sessionsFile' =
                               [ exists |-> TRUE,
                                 content |-> [ sessions EXCEPT ![sessionIndex].arguments =
                                                 Append(@, argument) ] ]
                          /\ lastCall' = Call("addArgument", sessionId, << >>, submission,
                                              TRUE, << >>, NoSession, argument)
                     ELSE /\ lastCall' = Call("addArgument", sessionId, << >>, submission,
                                              FALSE, SaveFailed, NoSession, NoArgument)
                          /\ UNCHANGED sessionsFile
  /\ storeCalls' = storeCalls + 1
  /\ UNCHANGED << dataDir, created, resultsFile, saved >>
  /\ UNCHANGED << analyzerVars, rerunVars, printerVars, cliVars, flightVars >>

\* MarkSessionProcessed with the bug of marking the first session when the
\* id is unknown
MarkSessionProcessedDefaultsToFirst(sessionId) ==
  /\ storeCalls < MaxStoreCalls
  /\ LET sessions     == loadSessions
         found        == findIndex(sessions, sessionId)
         sessionIndex == IF found = -1 /\ Len(sessions) > 0 THEN 1 ELSE found
     IN  IF sessionIndex = -1
         THEN /\ lastCall' = Call("markSessionProcessed", sessionId, << >>, NoSubmission,
                                  FALSE, SessionNotFound(sessionId), NoSession, NoArgument)
              /\ UNCHANGED sessionsFile
         ELSE IF canSaveSessions
         THEN /\ sessionsFile' =
                   [ exists |-> TRUE,
                     content |-> [ sessions EXCEPT ![sessionIndex].processedAt =
                                     Defined(DateNow) ] ]
              /\ lastCall' = Call("markSessionProcessed", sessionId, << >>, NoSubmission,
                                  TRUE, << >>, NoSession, NoArgument)
         ELSE /\ lastCall' = Call("markSessionProcessed", sessionId, << >>, NoSubmission,
                                  FALSE, SaveFailed, NoSession, NoArgument)
              /\ UNCHANGED sessionsFile
  /\ storeCalls' = storeCalls + 1
  /\ UNCHANGED << dataDir, created, resultsFile, saved >>
  /\ UNCHANGED << analyzerVars, rerunVars, printerVars, cliVars, flightVars >>

\* lines 181-191
MarkSessionProcessed(sessionId) ==
  /\ storeCalls < MaxStoreCalls
  /\ LET sessions     == loadSessions
         sessionIndex == findIndex(sessions, sessionId)
     IN  IF sessionIndex = -1
         THEN /\ lastCall' = Call("markSessionProcessed", sessionId, << >>, NoSubmission,
                                  FALSE, SessionNotFound(sessionId), NoSession, NoArgument)
              /\ UNCHANGED sessionsFile
         ELSE IF canSaveSessions
         THEN /\ sessionsFile' =
                   [ exists |-> TRUE,
                     content |-> [ sessions EXCEPT ![sessionIndex].processedAt =
                                     Defined(DateNow) ] ]
              /\ lastCall' = Call("markSessionProcessed", sessionId, << >>, NoSubmission,
                                  TRUE, << >>, NoSession, NoArgument)
         ELSE /\ lastCall' = Call("markSessionProcessed", sessionId, << >>, NoSubmission,
                                  FALSE, SaveFailed, NoSession, NoArgument)
              /\ UNCHANGED sessionsFile
  /\ storeCalls' = storeCalls + 1
  /\ UNCHANGED << dataDir, created, resultsFile, saved >>
  /\ UNCHANGED << analyzerVars, rerunVars, printerVars, cliVars, flightVars >>

\* the decisions handed to saveResults: one per session id
StoreDecisions ==
  { [ sessionId |-> id, topic |-> TopicAiTax, isTie |-> TRUE ] : id \in Ids }

NoDecisionSaved == [ sessionId |-> "", topic |-> << >>, isTie |-> FALSE ]

\* lines 222-232: the JSON value of results.json, the empty array if the
\* file is missing
loadResults ==
  IF resultsFile.exists THEN [ isArray |-> resultsFile.isArray, content |-> resultsFile.content ]
  ELSE [ isArray |-> TRUE, content |-> << >> ]

\* lines 166-169: results.find(...) || null; find is no function of an
\* object that is no array
getResults(sessionId) ==
  LET loaded == loadResults
      hits   == { i \in DOMAIN loaded.content : loaded.content[i].sessionId = sessionId }
  IN  IF ~loaded.isArray
      THEN [ threw |-> TRUE, isNull |-> TRUE, result |-> NoDecisionSaved ]
      ELSE IF hits = {}
      THEN [ threw |-> FALSE, isNull |-> TRUE, result |-> NoDecisionSaved ]
      ELSE [ threw |-> FALSE, isNull |-> FALSE,
             result |-> loaded.content[CHOOSE i \in hits : \A j \in hits : i <= j] ]

\* lines 174-176: whatever loadResults returns
getAllResults == loadResults

\* what store.saveResults(value) leaves in results.json.  The class declares
\* saveResults twice, at line 157 (load, push, save) and at line 237 (write
\* the value given); an object has the method declared last, so the call
\* runs lines 237-243 and writes the value it was given, no array.
writtenResults(value) ==
  [ exists |-> TRUE, writable |-> TRUE, isArray |-> FALSE, content |-> << value >> ]

\* lines 238-242: whether fs.writeFile succeeds
canSaveResults == dataDir /\ resultsFile.writable

SaveResultsFailed == << "Failed to save results: ", "ENOENT" >>

\* store.saveResults(result)
SaveResults(result) ==
  /\ storeCalls < MaxStoreCalls
  /\ IF canSaveResults
     THEN /\ resultsFile' = writtenResults(result)
          /\ saved' = Append(saved, result)
          /\ lastCall' = Call("saveResults", result.sessionId, << >>, NoSubmission, TRUE,
                              << >>, NoSession, NoArgument)
     ELSE /\ lastCall' = Call("saveResults", result.sessionId, << >>, NoSubmission, FALSE,
                              SaveResultsFailed, NoSession, NoArgument)
          /\ UNCHANGED << resultsFile, saved >>
  /\ storeCalls' = storeCalls + 1
  /\ UNCHANGED << dataDir, sessionsFile, created >>
  /\ UNCHANGED << analyzerVars, rerunVars, printerVars, cliVars, flightVars >>

\* the ids a caller may pass
CallerIds == Ids \cup { UnknownId }

NextStore ==
  \/ Initialize
  \/ \E topic \in StoreTopics : CreateSession(topic)
  \/ \E sessionId \in CallerIds, submission \in Submissions : AddArgument(sessionId, submission)
  \/ \E sessionId \in CallerIds : MarkSessionProcessed(sessionId)
  \/ \E result \in StoreDecisions : SaveResults(result)

SpecStore == InitStore /\ [][NextStore]_vars

(***************************************************************************)
(* ResultPrinter.wrapText (src/unnamed/part_000, lines 219-240)            *)
(***************************************************************************)
MaxTextLen == 5

MaxWrapWidth == 3

WrapTexts == SeqsUpTo({ "a", " " }, MaxTextLen)

RECURSIVE splitSpaceFrom(_, _, _)
\* text.split(' ') from character i on, piece being the characters read
\* since the last space
splitSpaceFrom(text, i, piece) ==
  IF i > Len(text) THEN << piece >>
  ELSE IF text[i] = " " THEN << piece >> \o splitSpaceFrom(text, i + 1, << >>)
  ELSE splitSpaceFrom(text, i + 1, Append(piece, text[i]))

splitSpace(text) == splitSpaceFrom(text, 1, << >>)

RECURSIVE wrapFrom(_, _, _, _, _)
\* the loop of lines 224-233 from word i on, and lines 235-239 after it
wrapFrom(words, i, width, lines, currentLine) ==
  IF i > Len(words)
  THEN IF currentLine # << >> THEN Append(lines, currentLine) ELSE lines
  ELSE IF Len(currentLine \o words[i]) <= width
  THEN wrapFrom(words, i + 1, width, lines,
                currentLine \o (IF currentLine # << >> THEN << " " >> ELSE << >>) \o words[i])
  ELSE wrapFrom(words, i + 1, width,
                IF currentLine # << >> THEN Append(lines, currentLine) ELSE lines,
                words[i])

wrapText(text, width) == wrapFrom(splitSpace(text), 1, width, << >>, << >>)

InitPrinter ==
  /\ wrapInput \in [ text : WrapTexts, width : 1..MaxWrapWidth ]
  /\ wrapOutput = [ returned |-> FALSE, lines |-> << >> ]
  /\ AnalyzerIdle /\ RerunIdle /\ StoreIdle /\ CliIdle /\ FlightIdle

\* one call of wrapText
WrapText ==
  /\ ~wrapOutput.returned
  /\ wrapOutput' = [ returned |-> TRUE, lines |-> wrapText(wrapInput.text, wrapInput.width) ]
  /\ UNCHANGED wrapInput
  /\ UNCHANGED << analyzerVars, rerunVars, storeVars, cliVars, flightVars >>

NextPrinter == WrapText

SpecPrinter == InitPrinter /\ [][NextPrinter]_vars

(***************************************************************************)
(* DebateRefereeCLI.analyzeDebate (src/unnamed/part_001, lines 557-611)    *)
(* and the same steps of demo.js (lines 89-108)                            *)
(***************************************************************************)
\* an argument as addArgument stored it
StoredArgument(id, submission, topic) ==
  [ id |-> id, userId |-> submission.userId, userName |-> submission.userName,
    topic |-> topic, text |-> submission.text, timestamp |-> DateNow ]

\* a pending session as createSession and addArgument stored it
StoredSession(id, topic, submissions) ==
  [ id |-> id, topic |-> topic,
    arguments |-> [ i \in DOMAIN submissions |->
                      StoredArgument(IF i = 1 THEN "debate_1_c" ELSE "debate_1_d",
                                     submissions[i], topic) ],
    createdAt |-> DateNow, processedAt |-> Undefined ]

SessionTwoSided ==
  StoredSession("debate_1_a", TopicAiTax, << Arg("u1", TextShort), Arg("u2", TextMarked) >>)

SessionOneSided == StoredSession("debate_1_b", TopicAiTax, << Arg("u1", TextScenarioA) >>)

SessionWithoutArguments == StoredSession("debate_1_b", TopicUbi, << >>)

\* the arrays sessions.json holds when the flow starts
CliStores ==
  { << >>,
    << SessionTwoSided, SessionWithoutArguments >>,
    << SessionOneSided, SessionTwoSided >> }

\* the answers to 'Start analysis? (y/n): '
Confirmations == { << "y" >>, << "Y" >>, << "n" >> }

NoArgumentsToAnalyze == << "No arguments to analyze. Add arguments first." >>

AnalysisCancelled == << "Analysis cancelled." >>

\* line 609
CliFailed(message) == << "Failed to analyze debate: " >> \o message

\* the store has been initialized, sessions.json holds pending sessions,
\* and results.json may be write-protected
InitCli ==
  /\ dataDir = TRUE
  /\ \E stored \in CliStores : sessionsFile = [ exists |-> TRUE, content |-> stored ]
  /\ \E writable \in BOOLEAN :
        resultsFile = [ exists |-> TRUE, writable |-> writable, isArray |-> TRUE,
                        content |-> << >> ]
  /\ created = << >>
  /\ lastCall = [ op |-> "none", ok |-> TRUE ]
  /\ storeCalls = 0
  /\ saved = << >>
  /\ cliPc = "menu"
  /\ cliSession = [ isNull |-> TRUE ]
  /\ cliResult = [ returned |-> FALSE ]
  /\ cliOutput = << >>
  /\ AnalyzerIdle /\ RerunIdle /\ PrinterIdle /\ FlightIdle

\* lines 560-563 with getSessionByUserInput (lines 449-478): the user picks
\* one of the sessions shown, or there is none
CliSelect ==
  /\ cliPc = "menu"
  /\ LET sessions == getAllSessions
     IN  IF Len(sessions) = 0
         THEN /\ cliPc' = "returned"
              /\ UNCHANGED cliSession
         ELSE /\ \E sessionNumber \in 1..Len(sessions) :
                    cliSession' = [ isNull |-> FALSE, session |-> sessions[sessionNumber] ]
              /\ cliPc' = "selected"
  /\ UNCHANGED << cliResult, cliOutput >>
  /\ UNCHANGED << analyzerVars, rerunVars, storeVars, printerVars, flightVars >>

\* lines 565-591: the check for arguments, the confirmation, and the call of
\* analyzeDebate(session); the analyzer is never null after initialize
CliConfirm ==
  /\ cliPc = "selected"
  /\ IF Len(cliSession.session.arguments) = 0
     THEN /\ cliOutput' = Append(cliOutput, NoArgumentsToAnalyze)
          /\ cliPc' = "returned"
          /\ UNCHANGED << session, pc >>
     ELSE \E confirm \in Confirmations :
             IF ToLowerCase(confirm) # << "y" >>
             THEN /\ cliOutput' = Append(cliOutput, AnalysisCancelled)
                  /\ cliPc' = "returned"
                  /\ UNCHANGED << session, pc >>
             ELSE /\ cliPc' = "analyzing"
                  /\ session' = cliSession.session
                  /\ pc' = "start"
                  /\ UNCHANGED cliOutput
  /\ UNCHANGED << cliSession, cliResult >>
  /\ UNCHANGED << response, aiResponse, judgeError, results, decision, failure,
                  judgeCalls, fallbackRuns >>
  /\ UNCHANGED << rerunVars, storeVars, printerVars, flightVars >>

\* lines 594-599: userName is written into each entry of result.results
\* whose key is the userId of an argument; result.winner is another object
fillUserNames(entries, arguments) ==
  [ i \in DOMAIN entries |->
      LET matching == { k \in DOMAIN arguments : arguments[k].userId = entries[i].userId }
      IN  IF matching = {} THEN entries[i]
          ELSE [ entries[i] EXCEPT
                   !.userName = arguments[CHOOSE k \in matching :
                                            \A m \in matching : k <= m].userName ] ]

\* the DebateResult analyzeDebate returned (debateAnalyzer.ts, lines 73-80)
\* after the loop of lines 594-599
namedResult(returned, analyzed) ==
  [ sessionId          |-> analyzed.id,
    topic              |-> returned.topic,
    results            |-> fillUserNames(returned.results, analyzed.arguments),
    winner             |-> returned.winner,
    isTie              |-> returned.isTie,
    consensusStatement |-> returned.consensusStatement ]

\* CliFillNames with the bug of going on to markSessionProcessed without
\* saving the result
CliFillNamesSkipsSave ==
  /\ cliPc = "analyzing"
  /\ pc = "done"
  /\ cliResult' = [ returned |-> TRUE, result |-> namedResult(decision, cliSession.session) ]
  /\ cliPc' = "marking"
  /\ UNCHANGED << cliSession, cliOutput >>
  /\ UNCHANGED << analyzerVars, rerunVars, storeVars, printerVars, flightVars >>

\* lines 591-599: analyzeDebate has returned; the names are filled in
CliFillNames ==
  /\ cliPc = "analyzing"
  /\ pc = "done"
  /\ cliResult' = [ returned |-> TRUE, result |-> namedResult(decision, cliSession.session) ]
  /\ cliPc' = "saving"
  /\ UNCHANGED << cliSession, cliOutput >>
  /\ UNCHANGED << analyzerVars, rerunVars, storeVars, printerVars, flightVars >>

\* lines 608-610: analyzeDebate has thrown
CliCatchAnalysis ==
  /\ cliPc = "analyzing"
  /\ pc = "failed"
  /\ cliOutput' = Append(cliOutput, CliFailed(failure))
  /\ cliPc' = "failed"
  /\ UNCHANGED << cliSession, cliResult >>
  /\ UNCHANGED << analyzerVars, rerunVars, storeVars, printerVars, flightVars >>

\* line 602: the call store.saveResults(result)
CliCallsSaveResults ==
  /\ cliPc = "saving"
  /\ lastCall.op # "saveResults"
  /\ SaveResults(cliResult.result)

\* line 602 settles: the flow goes on, or to the catch of lines 608-610
CliSaveSettled ==
  /\ cliPc = "saving"
  /\ lastCall.op = "saveResults"
  /\ IF lastCall.ok
     THEN cliPc' = "marking" /\ UNCHANGED cliOutput
     ELSE cliPc' = "failed" /\ cliOutput' = Append(cliOutput, CliFailed(lastCall.error))
  /\ UNCHANGED << cliSession, cliResult >>
  /\ UNCHANGED << analyzerVars, rerunVars, storeVars, printerVars, flightVars >>

\* line 603: the call store.markSessionProcessed(session.id)
CliCallsMarkSessionProcessed ==
  /\ cliPc = "marking"
  /\ lastCall.op # "markSessionProcessed"
  /\ MarkSessionProcessed(cliSession.session.id)

\* line 603 settles
CliMarkSettled ==
  /\ cliPc = "marking"
  /\ lastCall.op = "markSessionProcessed"
  /\ IF lastCall.ok
     THEN cliPc' = "printing" /\ UNCHANGED cliOutput
     ELSE cliPc' = "failed" /\ cliOutput' = Append(cliOutput, CliFailed(lastCall.error))
  /\ UNCHANGED << cliSession, cliResult >>
  /\ UNCHANGED << analyzerVars, rerunVars, storeVars, printerVars, flightVars >>

\* ResultPrinter.printWinner (src/unnamed/part_000, lines 145-157): the
\* lines it centres
printWinner(result) ==
  IF result.isTie THEN << << "TIE! Multiple participants scored equally well." >> >>
  ELSE IF ~result.winner.isNull
  THEN << << "WINNER: ", result.winner.userName >>,
          << "Final Score: ", result.winner.finalScore, "/10" >> >>
  ELSE << << "No winner determined." >> >>

\* line 606: printDebateResults(result), of which the winner box is kept
CliPrint ==
  /\ cliPc = "printing"
  /\ cliOutput' = Append(cliOutput, printWinner(cliResult.result))
  /\ cliPc' = "returned"
  /\ UNCHANGED << cliSession, cliResult >>
  /\ UNCHANGED << analyzerVars, rerunVars, storeVars, printerVars, flightVars >>

\* The data directory is removed while the flow waits: from then on
\* readFile and writeFile fail (the catch blocks of lines 201-205, 214-216,
\* 227-231 and 240-242).
DataDirLost ==
  /\ cliPc \in { "analyzing", "saving", "marking" }
  /\ dataDir
  /\ dataDir' = FALSE
  /\ sessionsFile' = [ exists |-> FALSE, content |-> << >> ]
  /\ resultsFile' = [ exists |-> FALSE, writable |-> TRUE, isArray |-> TRUE, content |-> << >> ]
  /\ UNCHANGED << created, lastCall, storeCalls, saved >>
  /\ UNCHANGED << analyzerVars, rerunVars, printerVars, cliVars, flightVars >>

NextCli ==
  \/ CliSelect
  \/ CliConfirm
  \/ Start
  \/ JudgeResponds
  \/ Validate
  \/ Fallback
  \/ Aggregate
  \/ Resolve
  \/ CliFillNames
  \/ CliCatchAnalysis
  \/ CliCallsSaveResults
  \/ CliSaveSettled
  \/ CliCallsMarkSessionProcessed
  \/ CliMarkSettled
  \/ CliPrint
  \/ DataDirLost

SpecCli == InitCli /\ [][NextCli]_vars

(***************************************************************************)
(* DebateStore.addArgument called without awaiting the call before it      *)
(* (src/unnamed/part_001, lines 131-152): each call loads, then saves      *)
(***************************************************************************)
MaxInFlight == 2

\* sessions.json when the calls start
FlightStore ==
  << StoredSession("debate_1_a", TopicAiTax, << >>), SessionOneSided >>

\* a call that has been made: it waits for loadSessions (line 132)
FlightCall(sessionId, submission) ==
  [ stage |-> "called", sessionId |-> sessionId, submission |-> submission,
    loaded |-> << >>, ok |-> FALSE, error |-> << >>, argument |-> NoArgument ]

FlightCalls ==
  { FlightCall(sessionId, submission) :
      sessionId \in { "debate_1_a", UnknownId }, submission \in Submissions }

InitFlight ==
  /\ dataDir = TRUE
  /\ sessionsFile = [ exists |-> TRUE, content |-> FlightStore ]
  /\ resultsFile = [ exists |-> TRUE, writable |-> TRUE, isArray |-> TRUE, content |-> << >> ]
  /\ created = << >>
  /\ lastCall = [ op |-> "none", ok |-> TRUE ]
  /\ storeCalls = 0
  /\ saved = << >>
  /\ inFlight \in UNION { [ 1..n -> FlightCalls ] : n \in 1..MaxInFlight }
  /\ AnalyzerIdle /\ RerunIdle /\ PrinterIdle /\ CliIdle

\* line 132: loadSessions resolves with the array read from the file
FlightLoad(k) ==
  /\ inFlight[k].stage = "called"
  /\ inFlight' = [ inFlight EXCEPT ![k].stage = "loaded", ![k].loaded = loadSessions ]
  /\ UNCHANGED << analyzerVars, rerunVars, storeVars, printerVars, cliVars >>

\* lines 133-151: the session is looked up in the array this call loaded,
\* the argument is pushed onto it, and that array is written
FlightSave(k) ==
  /\ inFlight[k].stage = "loaded"
  /\ LET sessions     == inFlight[k].loaded
         sessionId    == inFlight[k].sessionId
         submission   == inFlight[k].submission
         sessionIndex == findIndex(sessions, sessionId)
     IN  IF sessionIndex = -1
         THEN /\ inFlight' = [ inFlight EXCEPT ![k].stage = "settled",
                                               ![k].error = SessionNotFound(sessionId) ]
              /\ UNCHANGED sessionsFile
         ELSE \E id \in Ids :
                 LET argument == [ id |-> id, userId |-> submission.userId,
                                   userName |-> submission.userName,
                                   topic |-> sessions[sessionIndex].topic,
                                   text |-> submission.text, timestamp |-> DateNow ]
                 IN  IF canSaveSessions
                     THEN /\ sessionsFile' =
                               [ exists |-> TRUE,
                                 content |-> [ sessions EXCEPT ![sessionIndex].arguments =
                                                 Append(@, argument) ] ]
                          /\ inFlight' = [ inFlight EXCEPT ![k].stage = "settled",
                                                           ![k].ok = TRUE,
                                                           ![k].argument = argument ]
                     ELSE /\ inFlight' = [ inFlight EXCEPT ![k].stage = "settled",
                                                           ![k].error = SaveFailed ]
                          /\ UNCHANGED sessionsFile
  /\ UNCHANGED << dataDir, created, lastCall, storeCalls, resultsFile, saved >>
  /\ UNCHANGED << analyzerVars, rerunVars, printerVars, cliVars >>

NextFlight ==
  \/ \E k \in DOMAIN inFlight : FlightLoad(k)
  \/ \E k \in DOMAIN inFlight : FlightSave(k)

SpecFlight == InitFlight /\ [][NextFlight]_vars

(***************************************************************************)
(* Properties                                                              *)
(***************************************************************************)
SubScoreFields == { "clarity", "logic", "evidence", "relevance" }

ResultKeys == { decision.results[i].userId : i \in DOMAIN decision.results }

\* C1: in every returned decision, winner is null exactly when isTie is
\* true or the result mapping is empty; with exactly one participant in the
\* result mapping, isTie is false and the winner is that participant.
C1_WinnerNullIffTieOrEmpty ==
  decision.returned =>
    /\ decision.winner.isNull <=> (decision.isTie \/ Len(decision.results) = 0)
    /\ Len(decision.results) = 1 =>
         /\ ~decision.isTie
         /\ ~decision.winner.isNull
         /\ decision.winner.userId = decision.results[1].userId

C1_Witness ==
  /\ decision.returned
  /\ Len(decision.results) >= 2
  /\ decision.isTie
  /\ decision.winner.isNull

\* C2: for a session with at least one argument no error reaches the
\* caller, whatever the judge does; the only error is the one of the
\* zero-arguments precondition.
C2_OnlyPreconditionErrorSurfaces ==
  pc = "failed" =>
    /\ Len(session.arguments) = 0
    /\ failure = Failed(<< "No arguments to analyze" >>)

\* C3: whenever the judge step failed, the returned results, reasoning,
\* winner, isTie and consensus statement are those of the heuristic scorer,
\* the aggregator and the winner resolver run on the session, follow the
\* heuristic templates and hold nothing of the judge's output, whatever the
\* cause of the failure.
C3_FailureGivesHeuristicDecision ==
  (decision.returned /\ judgeError # << >>) =>
    LET fb       == performFallbackAnalysis(session)
        expected == calculateFinalScores(fb.scores)
    IN  /\ decision.results = expected
        /\ decision.consensusStatement = fb.consensusStatement
        /\ \E sorted \in sortOutcomes(expected) :
              /\ decision.winner = determineWinner(expected, sorted).winner
              /\ decision.isTie = determineWinner(expected, sorted).isTie
        /\ decision.consensusStatement[1] = "Fallback analysis: "
        /\ \A i \in DOMAIN decision.results :
              /\ decision.results[i].reasoning[1] = "Fallback scoring: "
              /\ decision.results[i].reasoning # JudgeReasoning

\* the judge's payload passed everything but one field of one participant
C3_Witness ==
  /\ decision.returned
  /\ Len(judgeError) = 3
  /\ judgeError[2] = "Invalid evidence score for user "
  /\ decision.consensusStatement[1] = "Fallback analysis: "

\* C4: on a session with zero arguments analyzeDebate fails at once with
\* an error for the caller; the judge is never called, the heuristic scorer
\* never run and no decision produced.
C4_EmptySessionFailsImmediately ==
  (Len(session.arguments) = 0 /\ pc # "start") =>
    /\ pc = "failed"
    /\ failure = Failed(<< "No arguments to analyze" >>)
    /\ judgeCalls = 0
    /\ fallbackRuns = 0
    /\ ~decision.returned

C4_Witness == Len(session.arguments) = 0 /\ pc = "failed"

\* C5: in every returned decision each participant id of the session's
\* arguments is a key of the result mapping exactly once, on the judge path
\* and on the heuristic path, also when a participant submitted several
\* arguments.
C5_EachParticipantOnce ==
  decision.returned =>
    \A u \in Participants(session) :
       Cardinality({ i \in DOMAIN decision.results : decision.results[i].userId = u }) = 1

\* a participant with two arguments, scored by the heuristic path
C5_Witness ==
  /\ decision.returned
  /\ aiResponse.from = "fallback"
  /\ \E i, j \in DOMAIN session.arguments :
        i < j /\ session.arguments[i].userId = session.arguments[j].userId

\* C6: entries of the judge's payload for ids that are not in the session's
\* arguments are unused: they are no key of the result mapping and cannot
\* be the winner.
C6_ExtraEntriesUnused ==
  (decision.returned /\ aiResponse.from = "judge") =>
    \A i \in DOMAIN aiResponse.scores :
       aiResponse.scores[i].userId \notin Participants(session) =>
         /\ aiResponse.scores[i].userId \notin ResultKeys
         /\ decision.winner.isNull \/ decision.winner.userId # aiResponse.scores[i].userId

\* the weighted sum with the decimal weights 0.25, 0.30, 0.25, 0.20 of
\* sub-scores given in halves, rounded half up to hundredths
RoundHalfUpExact(c, l, e, r) == (25 * c + 30 * l + 25 * e + 20 * r + 1) \div ScoreUnit

\* C7: for every participant of the raw-score mapping, finalScore is
\* 0.25*clarity + 0.30*logic + 0.25*evidence + 0.20*relevance rounded half
\* up to 2 decimal places, the weights summing to 1.
C7_FinalScoreIsRoundedWeightedSum ==
  pc \in { "resolve", "done" } =>
    /\ 25 + 30 + 25 + 20 = 100
    /\ \A i \in DOMAIN aiResponse.scores :
          LET raw == aiResponse.scores[i]
          IN  allNumbers(raw) =>
                Get(results, raw.userId).finalScore
                  = Num(RoundHalfUpExact(raw.clarity.v, raw.logic.v, raw.evidence.v,
                                         raw.relevance.v))

InRange(n, hi) == ~n.nan /\ 0 <= n.x /\ n.x <= hi

\* C8: every finalScore and every sub-score of the result mapping of a
\* returned decision lies in [0,10].
C8_ScoresInRange ==
  decision.returned =>
    \A i \in DOMAIN decision.results :
       /\ InRange(decision.results[i].finalScore, 1000)
       /\ \A f \in SubScoreFields : InRange(decision.results[i].scores[f], 100)

\* the text of the judge holds a JSON object with a scores member
C9_HasPayload ==
  /\ ~response.threw
  /\ hasJsonMatch(response.text)
  /\ jsonParses(jsonMatch(response.text))
  /\ jsonParse(jsonMatch(response.text)).hasScores

C9_Payload == jsonParse(jsonMatch(response.text)).scores

C9_EntryMissing(u) == \A i \in DOMAIN C9_Payload : C9_Payload[i].userId # u

C9_EntryInvalid(u) ==
  \E i \in DOMAIN C9_Payload :
     /\ C9_Payload[i].userId = u
     /\ ~C9_Payload[i].isNull
     /\ \E f \in SubScoreFields :
           \/ C9_Payload[i][f].t # "number"
           \/ C9_Payload[i][f].v < Pts(0)
           \/ C9_Payload[i][f].v > Pts(10)

C9_EntryValid(u) ==
  \E i \in DOMAIN C9_Payload :
     /\ C9_Payload[i].userId = u
     /\ ~C9_Payload[i].isNull
     /\ \A f \in SubScoreFields :
           /\ C9_Payload[i][f].t = "number"
           /\ Pts(0) <= C9_Payload[i][f].v
           /\ C9_Payload[i][f].v <= Pts(10)

C9_MustReject ==
  \/ ~response.threw /\ ~hasJsonMatch(response.text)
  \/ /\ C9_HasPayload
     /\ \E u \in Participants(session) : C9_EntryMissing(u) \/ C9_EntryInvalid(u)

C9_MustAccept == C9_HasPayload /\ \A u \in Participants(session) : C9_EntryValid(u)

\* C9: the validator rejects, and the run falls back to the heuristic
\* path, whenever the text holds no JSON-object substring, a participant of
\* the session has no entry, or one of that participant's four sub-scores is
\* no number or outside [0,10]; it accepts when every participant of the
\* session has an entry with four sub-scores in [0,10], 0 and 10 included.
C9_ValidatorRejectsAndAccepts ==
  [][ pc = "validate" =>
        /\ C9_MustReject => (pc' = "fallback" /\ judgeError' # << >>)
        /\ C9_MustAccept => (pc' = "aggregate" /\ aiResponse'.from = "judge") ]_vars

\* accepted: a participant of the session was given the scores 0 and 10
C9_Witness ==
  /\ pc = "aggregate"
  /\ aiResponse.from = "judge"
  /\ \E i \in DOMAIN aiResponse.scores :
        /\ aiResponse.scores[i].userId \in Participants(session)
        /\ aiResponse.scores[i].clarity.v = Pts(0)
        /\ aiResponse.scores[i].logic.v = Pts(10)

\* the number of whitespace-delimited words: the maximal runs of characters
\* that are no white space
NumWords(text) ==
  Cardinality({ i \in DOMAIN text :
                  text[i] \notin WhiteSpace /\ (i = 1 \/ text[i - 1] \in WhiteSpace) })

ContainsAny(text, indicators) ==
  \E k \in DOMAIN indicators : Includes(ToLowerCase(text), indicators[k])

\* the last argument of a participant: the one whose scores the mapping keeps
LastArgOf(u) ==
  session.arguments[CHOOSE i \in DOMAIN session.arguments :
                      /\ session.arguments[i].userId = u
                      /\ \A j \in DOMAIN session.arguments :
                            session.arguments[j].userId = u => j <= i]

\* C10: the heuristic scorer gives clarity 8 with a structure marker and 6
\* without, logic 7 for more than 50 whitespace-delimited words and 5
\* otherwise, evidence 8 with an evidence marker and 4 without.
C10_HeuristicSubScores ==
  aiResponse.from = "fallback" =>
    \A i \in DOMAIN aiResponse.scores :
       LET score == aiResponse.scores[i]
           text  == LastArgOf(score.userId).text
       IN  /\ score.clarity = JNum(IF ContainsAny(text, structureIndicators) THEN Pts(8) ELSE Pts(6))
           /\ score.logic = JNum(IF NumWords(text) > 50 THEN Pts(7) ELSE Pts(5))
           /\ score.evidence = JNum(IF ContainsAny(text, evidenceIndicators) THEN Pts(8) ELSE Pts(4))

\* the words of a text: its maximal runs of characters that are no white space
WordsOf(text) == SelectSeq(SplitWs(text), LAMBDA piece : piece # << >>)

\* the number of topic words that are a substring of, or contain as a
\* substring, some word of the text
MatchedTopicWords(text, topic) ==
  LET topicWords == WordsOf(ToLowerCase(topic))
      textWords  == WordsOf(ToLowerCase(text))
  IN  Cardinality({ i \in DOMAIN topicWords :
                      \E j \in DOMAIN textWords :
                         \/ Includes(textWords[j], topicWords[i])
                         \/ Includes(topicWords[i], textWords[j]) })

\* relevanceRatio * 10 + 5 clamped to [5,10], in halves
ClaimedRelevance(text, topic) ==
  LET ratioTimesTen == (MatchedTopicWords(text, topic) * Pts(10))
                          \div Len(WordsOf(ToLowerCase(topic)))
  IN  Min2(Pts(10), Max2(Pts(5), ratioTimesTen + Pts(5)))

\* C11: the heuristic relevance sub-score of an argument is
\* relevanceRatio * 10 + 5 clamped to [5,10], relevanceRatio being the share
\* of topic words that match some argument word; an argument that matches no
\* topic word gets relevance 5.
C11_HeuristicRelevance ==
  aiResponse.from = "fallback" =>
    \A i \in DOMAIN aiResponse.scores :
       LET score == aiResponse.scores[i]
           text  == LastArgOf(score.userId).text
       IN  score.relevance = JNum(ClaimedRelevance(text, session.topic))

\* a text of the model that shares no word with the topic
NoMatchText == << "w" >>

\* C12: the heuristic scorer does not fail, and an argument whose text is
\* empty is scored clarity 6, logic 5, evidence 4 and the relevance that an
\* argument matching no topic word is given.
C12_EmptyTextGetsBaseScores ==
  /\ pc = "fallback" => failure = << >>
  /\ aiResponse.from = "fallback" =>
       \A i \in DOMAIN aiResponse.scores :
          LET score == aiResponse.scores[i]
          IN  LastArgOf(score.userId).text = << >> =>
                /\ score.clarity = JNum(Pts(6))
                /\ score.logic = JNum(Pts(5))
                /\ score.evidence = JNum(Pts(4))
                /\ score.relevance =
                     fallbackEntry(Arg(score.userId, NoMatchText), session.topic).relevance

StudiesShow == << "s","t","u","d","i","e","s"," ","s","h","o","w" >>

However == << "h","o","w","e","v","e","r" >>

\* the session of scenario A: a long argument with "studies show" and
\* "however" first, a short one without markers second
ScenarioA ==
  /\ Len(session.arguments) = 2
  /\ session.arguments[1].userId # session.arguments[2].userId
  /\ NumWords(session.arguments[1].text) > 50
  /\ Includes(ToLowerCase(session.arguments[1].text), StudiesShow)
  /\ Includes(ToLowerCase(session.arguments[1].text), However)
  /\ NumWords(session.arguments[2].text) <= 50
  /\ ~ContainsAny(session.arguments[2].text, structureIndicators)
  /\ ~ContainsAny(session.arguments[2].text, evidenceIndicators)

\* C13: in scenario A on the heuristic path the first argument is scored
\* clarity 8, evidence 8, logic 7 and the second clarity 6, logic 5,
\* evidence 4; the first participant's finalScore is at least 0.1 higher and
\* the first participant is the winner, with isTie false.
C13_ScenarioAHeuristic ==
  (ScenarioA /\ aiResponse.from = "fallback") =>
    LET first  == session.arguments[1].userId
        second == session.arguments[2].userId
    IN  /\ Get(aiResponse.scores, first).clarity = JNum(Pts(8))
        /\ Get(aiResponse.scores, first).evidence = JNum(Pts(8))
        /\ Get(aiResponse.scores, first).logic = JNum(Pts(7))
        /\ Get(aiResponse.scores, second).clarity = JNum(Pts(6))
        /\ Get(aiResponse.scores, second).logic = JNum(Pts(5))
        /\ Get(aiResponse.scores, second).evidence = JNum(Pts(4))
        /\ decision.returned =>
             /\ Get(decision.results, first).finalScore.x
                  >= Get(decision.results, second).finalScore.x + 10
             /\ ~decision.isTie
             /\ ~decision.winner.isNull
             /\ decision.winner.userId = first

\* the finalScores of a returned decision, in hundredths
FinalScoreAt(i) == decision.results[i].finalScore.x

\* an index of a highest finalScore
IsTop(i) == \A j \in DOMAIN decision.results : FinalScoreAt(j) <= FinalScoreAt(i)

\* C14: with two or more participants (and no other entry in the result
\* mapping), isTie is true and winner null exactly
\* when the highest and the second-highest rounded finalScore differ by less
\* than 0.1 (0.09 is a tie, exactly 0.10 is not); otherwise isTie is false
\* and the winner is the participant with the highest finalScore.
C14_TieIffTopTwoWithinTenth ==
  ( /\ decision.returned
    /\ Len(decision.results) >= 2
    /\ ResultKeys = Participants(session)
    /\ \A i \in DOMAIN decision.results : ~decision.results[i].finalScore.nan ) =>
    \E top \in DOMAIN decision.results :
       /\ IsTop(top)
       /\ LET secondBest == CHOOSE k \in DOMAIN decision.results \ { top } :
                               \A j \in DOMAIN decision.results \ { top } :
                                  FinalScoreAt(j) <= FinalScoreAt(k)
          IN  IF FinalScoreAt(top) - FinalScoreAt(secondBest) < 10
              THEN decision.isTie /\ decision.winner.isNull
              ELSE /\ ~decision.isTie
                   /\ ~decision.winner.isNull
                   /\ decision.winner.userId = decision.results[top].userId
                   /\ decision.winner.finalScore = decision.results[top].finalScore

C16_CreatedSessionsAreStored ==
  /\ (lastCall.op = "createSession" /\ lastCall.ok) =>
        /\ lastCall.session.topic = lastCall.topic
        /\ lastCall.session.arguments = << >>
        /\ ~lastCall.session.processedAt.defined
  /\ Len(getAllSessions) = Len(created)
  /\ \A i \in DOMAIN created :
        /\ getAllSessions[i].id = created[i].id
        /\ getAllSessions[i].topic = created[i].topic
        /\ ~getSession(created[i].id).isNull
        /\ getSession(created[i].id).session.id = created[i].id

\* two sessions were created, on different topics
C16_Witness ==
  /\ Len(created) = 2
  /\ created[1].topic # created[2].topic
  /\ lastCall.op = "createSession" /\ lastCall.ok

\* C17: a successful addArgument appends exactly one argument at the end of
\* the argument list of the session with the given id, with the userId,
\* userName and text given and the topic of that session; the earlier
\* arguments of the session keep their order and content and every other
\* session is unchanged.
C17_AddArgumentAppendsOne ==
  [][ (lastCall'.op = "addArgument" /\ lastCall'.ok) =>
        LET before == loadSessions
            after  == sessionsFile'.content
            index  == findIndex(before, lastCall'.sessionId)
        IN  /\ index # -1
            /\ sessionsFile'.exists
            /\ Len(after) = Len(before)
            /\ after[index].arguments = Append(before[index].arguments, lastCall'.argument)
            /\ lastCall'.argument.userId = lastCall'.userId
            /\ lastCall'.argument.userName = lastCall'.userName
            /\ lastCall'.argument.text = lastCall'.text
            /\ lastCall'.argument.topic = before[index].topic
            /\ after = [ before EXCEPT ![index].arguments = after[index].arguments ]
    ]_vars

\* a second argument was added to a session
C17_Witness ==
  /\ lastCall.op = "addArgument" /\ lastCall.ok
  /\ \E i \in DOMAIN loadSessions :
        /\ Len(loadSessions[i].arguments) = 2
        /\ loadSessions[i].arguments[2] = lastCall.argument
        /\ loadSessions[i].arguments[1].userId # lastCall.argument.userId

\* C18: addArgument and markSessionProcessed with a session id that is not
\* in the store fail with a "not found" error and leave the stored sessions
\* unchanged.
C18_UnknownIdIsNotFound ==
  [][ ( /\ lastCall'.op \in { "addArgument", "markSessionProcessed" }
        /\ \A i \in DOMAIN loadSessions : loadSessions[i].id # lastCall'.sessionId ) =>
        /\ ~lastCall'.ok
        /\ lastCall'.error = << "Session ", lastCall'.sessionId, " not found" >>
        /\ sessionsFile' = sessionsFile
    ]_vars

\* markSessionProcessed failed on a store that holds a session
C18_Witness ==
  /\ lastCall.op = "markSessionProcessed"
  /\ ~lastCall.ok
  /\ Len(loadSessions) >= 1
  /\ \A i \in DOMAIN loadSessions : loadSessions[i].id # lastCall.sessionId

\* the longest run of characters of a text that are no space
LongestWord(text) ==
  LET wordSpans == { << i, j >> \in (1..Len(text)) \X (1..Len(text)) :
                   i <= j /\ \A k \in i..j : text[k] # " " }
  IN  IF wordSpans = {} THEN 0
      ELSE CHOOSE n \in 1..Len(text) :
             /\ \E r \in wordSpans : r[2] - r[1] + 1 = n
             /\ \A r \in wordSpans : r[2] - r[1] + 1 <= n

\* C19: wrapText(text, width) returns only lines of length at most width
\* when no word of the text is longer than width.
C19_WrappedLinesFit ==
  (wrapOutput.returned /\ LongestWord(wrapInput.text) <= wrapInput.width) =>
    \A k \in DOMAIN wrapOutput.lines : Len(wrapOutput.lines[k]) <= wrapInput.width

\* the order in which the validator looks at a participant's entry: 0 is
\* the entry itself, then the four fields
CheckOrder == << "clarity", "logic", "evidence", "relevance" >>

\* the checks that the payload fails for participant u
FailedChecks(u) ==
  IF \A i \in DOMAIN C9_Payload : C9_Payload[i].userId # u \/ C9_Payload[i].isNull
  THEN { 0 }
  ELSE LET entry == C9_Payload[CHOOSE i \in DOMAIN C9_Payload : C9_Payload[i].userId = u]
       IN  { k \in DOMAIN CheckOrder :
               \/ entry[CheckOrder[k]].t # "number"
               \/ entry[CheckOrder[k]].v < Pts(0)
               \/ entry[CheckOrder[k]].v > Pts(10) }

ViolationText(check) ==
  CASE check = 0 -> "Missing score for user "
    [] check = 1 -> "Invalid clarity score for user "
    [] check = 2 -> "Invalid logic score for user "
    [] check = 3 -> "Invalid evidence score for user "
    [] check = 4 -> "Invalid relevance score for user "

\* the arguments whose participant fails some check
ViolatingArguments ==
  { i \in DOMAIN session.arguments : FailedChecks(session.arguments[i].userId) # {} }

\* the first violation in the order of the session's arguments and, for one
\* participant, in the order of CheckOrder
FirstViolationMessage ==
  LET first == CHOOSE i \in ViolatingArguments : \A j \in ViolatingArguments : i <= j
      u     == session.arguments[first].userId
      check == CHOOSE k \in FailedChecks(u) : \A m \in FailedChecks(u) : k <= m
  IN  << ViolationText(check), u >>

\* C20: the validator reports the first violation only: participants are
\* checked in the order of the session's arguments and, for each, in the
\* order missing entry, clarity, logic, evidence, relevance; the error names
\* the participant and the field of that first violation.
C20_FirstViolationReported ==
  [][ (pc = "validate" /\ C9_HasPayload /\ ViolatingArguments # {}) =>
        judgeError' = << "Invalid AI response format: " >> \o FirstViolationMessage ]_vars

\* the first participant passed and the second one's first invalid field,
\* logic, was reported
C20_Witness ==
  /\ pc = "fallback"
  /\ Len(session.arguments) = 2
  /\ session.arguments[1].userId = "u2"
  /\ session.arguments[2].userId = "u1"
  /\ judgeError = << "Invalid AI response format: ", "Invalid logic score for user ", "u1" >>

\* what holds of the counters and of the decision at every point of a run
RunShape ==
  /\ judgeCalls <= 1
  /\ fallbackRuns <= 1
  /\ (Len(session.arguments) > 0 /\ pc # "start") => judgeCalls = 1
  /\ fallbackRuns = 1 => (judgeError # << >> /\ aiResponse.from = "fallback")
  /\ aiResponse.from = "judge" => (fallbackRuns = 0 /\ judgeError = << >>)
  /\ decision.returned =>
       IF aiResponse.from = "fallback"
       THEN /\ decision.consensusStatement = performFallbackAnalysis(session).consensusStatement
            /\ \A i \in DOMAIN decision.results :
                  decision.results[i].reasoning[1] = "Fallback scoring: "
       ELSE /\ aiResponse.from = "judge"
            /\ decision.consensusStatement = JudgeConsensus
            /\ \A i \in DOMAIN decision.results :
                  decision.results[i].reasoning = JudgeReasoning

\* the order of the steps
RunOrder ==
  /\ pc' = "judge_attempt" => pc = "start"
  /\ pc' = "validate" => pc = "judge_attempt"
  /\ pc' = "fallback" => pc = "validate"
  /\ pc' = "aggregate" => pc \in { "validate", "fallback" }
  /\ pc' = "resolve" => pc = "aggregate"
  /\ pc' = "done" => pc = "resolve"
  /\ decision'.returned => pc' = "done"
  /\ judgeCalls' > judgeCalls => pc = "start"
  /\ fallbackRuns' > fallbackRuns => pc = "fallback"

\* C21: in a run on a non-empty session the judge is called exactly once
\* and never again; the heuristic scorer runs only after the judge call or
\* the validation failed and never after a successful validation; the
\* scores, reasoning and consensus statement of the decision come from one
\* path only; aggregation precedes winner resolution, which precedes the
\* return of the decision.
C21_RunFollowsStateMachine == []RunShape /\ [][RunOrder]_vars

\* a decision returned on the heuristic path after a rejected payload
C21_Witness ==
  /\ pc = "done"
  /\ decision.returned
  /\ aiResponse.from = "fallback"
  /\ judgeCalls = 1 /\ fallbackRuns = 1
  /\ judgeError[1] = "Invalid AI response format: "

\* C22: no step of analyzeDebate changes the session it was given (topic,
\* arguments in their order, processed timestamp), whether the run returns
\* or fails, and a new invocation starts with nothing left of the last one.
C22_SessionUntouched ==
  /\ [][session' = session]_vars
  /\ [](pc = "start" =>
          /\ response = NoResponse /\ aiResponse = NoScoring /\ judgeError = << >>
          /\ results = << >> /\ decision = NoDecision /\ failure = << >>
          /\ ~session.processedAt.defined)

\* a run on the heuristic path has returned a decision for a session of two
\* arguments
C22_Witness ==
  /\ pc = "done"
  /\ decision.returned
  /\ fallbackRuns = 1
  /\ Len(session.arguments) = 2
  /\ ~session.processedAt.defined

\* C24: once a stored session has a processed timestamp, no store operation
\* changes its argument list or its processed timestamp.
C24_ProcessedIsTerminal ==
  [][ \A i \in DOMAIN loadSessions :
         loadSessions[i].processedAt.defined =>
           /\ i \in DOMAIN sessionsFile'.content
           /\ sessionsFile'.content[i].arguments = loadSessions[i].arguments
           /\ sessionsFile'.content[i].processedAt = loadSessions[i].processedAt ]_vars

\* C25: once saveResults(decision) has completed, getResults with the
\* session id of the decision returns that decision, and getAllResults
\* returns a list that holds every decision saved so far.
C25_SavedResultsAreKept ==
  saved # << >> =>
    /\ (lastCall.op = "saveResults" /\ lastCall.ok) =>
         LET answer == getResults(saved[Len(saved)].sessionId)
         IN  ~answer.threw /\ ~answer.isNull /\ answer.result = saved[Len(saved)]
    /\ getAllResults.isArray
    /\ \A k \in DOMAIN saved :
          \E j \in DOMAIN getAllResults.content : getAllResults.content[j] = saved[k]

\* the entries of the result mapping under the user id of the winner
WinnerEntries == { i \in DOMAIN decision.results : decision.results[i].userId = decision.winner.userId }

\* C27: whenever a decision names a winner, the winner's finalScore is the
\* maximum of the result mapping and exceeds the finalScore of every other
\* entry by at least 0.1; whenever two or more entries share the maximum
\* finalScore, the decision is a tie.  The winner's finalScore is a number;
\* another entry whose finalScore is no number is left out of the comparisons.
C27_WinnerLeadsByTenth ==
  decision.returned =>
    /\ ~decision.winner.isNull =>
         \E w \in WinnerEntries :
            /\ decision.winner.finalScore = decision.results[w].finalScore
            /\ ~decision.results[w].finalScore.nan
            /\ \A j \in DOMAIN decision.results \ { w } :
                  ~decision.results[j].finalScore.nan =>
                     FinalScoreAt(w) - FinalScoreAt(j) >= 10
    /\ ( \E i, j \in DOMAIN decision.results :
            /\ i # j
            /\ ~decision.results[i].finalScore.nan /\ ~decision.results[j].finalScore.nan
            /\ IsTop(i) /\ IsTop(j) )
         => decision.isTie

\* the stored sessions that carry a processed timestamp
ProcessedSessions == { i \in DOMAIN loadSessions : loadSessions[i].processedAt.defined }

\* a stored session is processed only when the analysis of it has returned
\* and its result has been saved
C23_ProcessedAfterSave ==
  \A i \in ProcessedSessions :
     /\ ~cliSession.isNull
     /\ loadSessions[i].id = cliSession.session.id
     /\ pc = "done" /\ decision.returned
     /\ cliResult.returned
     /\ cliResult.result.sessionId = loadSessions[i].id
     /\ saved # << >> /\ saved[Len(saved)] = cliResult.result
     /\ cliPc \in { "marking", "printing", "returned" }

\* the flow has ended in its catch, or before the analysis
C23_NotCompleted ==
  \/ cliPc = "failed"
  \/ cliPc = "returned" /\ ~cliResult.returned

\* a step that gives a stored session its processed timestamp
C23_MarkStep ==
  \E i \in DOMAIN sessionsFile'.content :
     /\ sessionsFile'.content[i].processedAt.defined
     /\ ~(i \in ProcessedSessions)

\* C23: in the analyze flow of the command line a session is marked
\* processed only after analyzeDebate has returned a decision and saveResults
\* has completed for it; if the analysis or the save fails, no processed
\* timestamp is set and the session stays pending.
C23_MarkedOnlyAfterSave ==
  /\ [](C23_ProcessedAfterSave /\ (C23_NotCompleted => ProcessedSessions = {}))
  /\ [][C23_MarkStep =>
          /\ cliPc = "marking"
          /\ lastCall.op = "saveResults" /\ lastCall.ok
          /\ lastCall.sessionId = cliSession.session.id]_vars

C23_Witness ==
  /\ cliPc = "returned"
  /\ ProcessedSessions # {}
  /\ Len(cliOutput) = 1

\* C26: in the decision the analyze flow saves and prints, a winner who is
\* a participant of the session carries the display name given in the
\* session's arguments, the name the flow wrote into results[winner.userId].
C26_WinnerCarriesDisplayName ==
  ( /\ cliResult.returned
    /\ ~cliResult.result.winner.isNull
    /\ cliResult.result.winner.userId \in Participants(cliSession.session) ) =>
    /\ \E k \in DOMAIN cliSession.session.arguments :
          /\ cliSession.session.arguments[k].userId = cliResult.result.winner.userId
          /\ cliSession.session.arguments[k].userName = cliResult.result.winner.userName
    /\ \E i \in DOMAIN cliResult.result.results :
          /\ cliResult.result.results[i].userId = cliResult.result.winner.userId
          /\ cliResult.result.results[i].userName = cliResult.result.winner.userName

\* the calls that completed successfully on the session with this id
SettledOn(sessionId) ==
  { k \in DOMAIN inFlight :
      inFlight[k].stage = "settled" /\ inFlight[k].ok /\ inFlight[k].sessionId = sessionId }

\* C28: when the addArgument calls in flight have all completed, the
\* argument of every successful call is in the stored session, and the
\* session has one more argument per successful call: none is lost.
C28_NoArgumentLost ==
  (\A k \in DOMAIN inFlight : inFlight[k].stage = "settled") =>
    \A i \in DOMAIN loadSessions :
       /\ Len(loadSessions[i].arguments)
            = Len(FlightStore[i].arguments) + Cardinality(SettledOn(loadSessions[i].id))
       /\ \A k \in SettledOn(loadSessions[i].id) :
             \E j \in DOMAIN loadSessions[i].arguments :
                loadSessions[i].arguments[j] = inFlight[k].argument

====
